---------------------------- MODULE Spec2Model ----------------------------
(***************************************************************************)
(* Offline-first store (OfflineDataStore.ts) and synchronization engine    *)
(* (SyncEngine.ts) of the POS application.                                 *)
(*                                                                         *)
(* The JavaScript runtime is single-threaded: an action of this module is  *)
(* the code an async function runs between two suspension points (await).  *)
(* An IndexedDB transaction takes effect, relative to the other            *)
(* transactions on the same object store, in the order of its creation,    *)
(* so a storage write or read is modelled at the step that creates its     *)
(* transaction; what the function does after the await is a later step.    *)
(* Storage transactions on the object stores init() creates are assumed to *)
(* succeed; a transaction on any other store name throws NotFoundError.    *)
(*                                                                         *)
(* The remote calls are the environment: the optimistic push (syncItem),   *)
(* the queued operation's API call (executeQueuedOperation) and the        *)
(* engine's fetches settle with an outcome the environment chooses.        *)
(***************************************************************************)
EXTENDS Integers, Sequences, FiniteSets, Bags, TLC

\* ------------------------------------------------------------------ bounds
MaxCounter == 2
MaxStamp == 2
MaxCalls == 2
MaxTime == 2
MaxWrites == 2
MaxOps == 2
MaxPages == 2
MaxSyncCalls == 2
MaxSyncWrites == 1
MaxRequests == 4
MaxJobs == 3
MaxTicks == 3
MaxSubs == 2
MaxItems == 12
MaxPrintJobs == 3
MaxDelayN == 8
MaxAborts == 1

\* the changes other devices make on the remote
MaxRemoteChanges == 2

\* --------------------------------------------------------------- constants
MAX_RETRY_ATTEMPTS == 5
BATCH_SIZE == 50
INITIAL_RETRY_DELAY == 1000
MAX_RETRY_DELAY == 32000
maxRetries == 3
\* the object stores onupgradeneeded creates
STORES == {"products", "orders", "inventory", "syncQueue", "conflicts"}

\* null / undefined, where a record may stand
Nil == [nil |-> TRUE]

\* the local device id and the id mergeRemoteItem gives the server's version
LocalDevice == "devA"
ServerDevice == "server"
Devices == {LocalDevice, ServerDevice}

\* the entity collections the store and the engine are run on: two of STORES' three
\* ('products' is handled by the same code as 'inventory' on every path)
Entities == {"inventory", "orders"}
\* the collections the resolver is run on: the three of STORES, and one without a
\* merge policy of its own
ResolveStores == {"products", "inventory", "orders", "other"}

\* record ids, and the ids crypto.randomUUID() may return for queued operations
RecIds == {"r1"}
\* the keys a collection may hold records under: those, and two more
StoreIds == RecIds \cup {"r2", "r3"}
OpIds == 1..MaxOps
\* the collections the application writes to
AppStores == {"orders"}
\* the messages a failed remote application may carry
Errors == {"timeout", "rejected"}
\* who calls get/put/delete: the application, from two places that do not wait for
\* each other, and the sync engine
AppCallers == {"app", "app2"}
Callers == AppCallers \cup {"sync"}

VARIABLES
  now,         \* Date.now()
  isOnline,    \* OfflineDataStore.isOnline, navigator.onLine
  db,          \* the entity object stores: db[store][id] is a DataItem or Nil
  cache,       \* OfflineDataStore.cache
  syncQueue,   \* object store 'syncQueue': syncQueue[opId] is a WriteOperation or Nil
  conflicts,   \* object store 'conflicts', the dead-letter store
  syncInProgress, \* OfflineDataStore.syncInProgress
  drain,       \* processQueuedWrites: its position and the operations left to visit
               \* (active: history, the drains that started and have not ended;
               \* aborts: history, the drains that ended with an error)
  calls,       \* the put/delete call each caller has in progress (online: history,
               \* isOnline when it was called)
  pushes,      \* syncItem promises not settled yet
  nextVal,     \* the payload of the application's next write
  enqOrder,    \* history: operation ids in the order they were enqueued
  attempts,    \* history: per queued operation, remote applications tried and
               \* acknowledged, and the last failure's message
  sent,        \* history: deliveries of each written payload to the remote, per path
  engineSyncInProgress, \* SyncEngine.syncInProgress
  abortController,      \* SyncEngine.abortController: "null", "live" or "aborted"
  syncState,   \* SyncEngine.syncState: per entity status, lastSync, lastError, ...
  lastSyncTs,  \* localStorage 'pos-last-sync-<entity>', 0 when absent
  sy,          \* the running sync() call: its position and local variables
  activeSyncs, \* history: sync() calls that passed the guards and have not ended
  skipped,     \* history: a sync() call returned at the in-progress guard
  syncCalls,   \* history: calls of sync() made
  pendingJobs, \* the updatePendingCount calls in progress, oldest first
  autoSyncTimer, \* SyncEngine.autoSyncTimer is set
  ticks,       \* history: times the auto-sync interval has fired
  tx,          \* the IndexedDB transaction executeTransaction opened last
  listeners,   \* the callback sets, in insertion order: OfflineDataStore.listeners
               \* for 'orders' (store) and SyncEngine.listeners (engine)
  notified,    \* history: the last notification, who received it and how it ended
  printJobs,   \* the PrintJob objects enqueue created, and where each call stands
  delays,      \* history: the waits of executeQueuedOperation, by retryCount
  remoteLog,   \* the remote's change log of 'orders', oldest change first
  rArgs,       \* resolver: the (store, local, remote) triple under test
  rCmp,        \* resolver: results of compareVectorClocks both ways, or Nil
  rOut,        \* resolver: last result of resolveConflict, or Nil
  rSeen,       \* resolver: every record resolveConflict returned for rArgs
  rCalls       \* resolver: number of resolveConflict calls made

storeVars == <<db, cache, syncQueue, conflicts, syncInProgress, drain, calls, pushes,
               nextVal, enqOrder, attempts, sent>>
resolverVars == <<rArgs, rCmp, rOut, rSeen, rCalls>>
sideVars == <<tx, listeners, notified, printJobs, delays, remoteLog>>
restVars == <<resolverVars, sideVars>>
engineVars == <<engineSyncInProgress, abortController, syncState, lastSyncTs, sy,
                activeSyncs, skipped, syncCalls,
                 pendingJobs, autoSyncTimer, ticks>>
vars == <<now, isOnline, storeVars, engineVars, restVars>>

\* ---------------------------------------------------------- vector clocks
\* Record<string, number>: a map from some of the devices to counters
Clocks == UNION {[S -> 0..MaxCounter] : S \in SUBSET Devices}

\* clock[deviceId] || 0
ClockGet(clock, d) == IF d \in DOMAIN clock /\ clock[d] # 0 THEN clock[d] ELSE 0

\* the for-loop of compareVectorClocks over allDevices, carrying the flags
RECURSIVE CompareLoop(_, _, _, _, _)
CompareLoop(todo, clock1, clock2, clock1Ahead, clock2Ahead) ==
  IF todo = {} THEN <<clock1Ahead, clock2Ahead>>
  ELSE LET deviceId == CHOOSE d \in todo : TRUE
           v1 == ClockGet(clock1, deviceId)
           v2 == ClockGet(clock2, deviceId)
       IN CompareLoop(todo \ {deviceId}, clock1, clock2,
                      clock1Ahead \/ (v1 > v2), clock2Ahead \/ (v2 > v1))

MutCompareVectorClocks(clock1, clock2) ==
  LET allDevices == DOMAIN clock1
      flags == CompareLoop(allDevices, clock1, clock2, FALSE, FALSE)
  IN IF flags[1] /\ ~flags[2] THEN 1
     ELSE IF flags[2] /\ ~flags[1] THEN -1
     ELSE 0

compareVectorClocks(clock1, clock2) ==
  LET allDevices == (DOMAIN clock1) \cup (DOMAIN clock2)
      flags == CompareLoop(allDevices, clock1, clock2, FALSE, FALSE)
  IN IF flags[1] /\ ~flags[2] THEN 1
     ELSE IF flags[2] /\ ~flags[1] THEN -1
     ELSE 0

\* ------------------------------------------------------ conflict resolver
MutMergeConflict(store, local, remote) ==
  CASE store = "orders" -> local
    [] store = "inventory" -> remote
    [] store = "products" -> remote
    [] OTHER -> IF local.timestamp > now THEN local ELSE remote

\* a merge policy that keeps the local record of the catalog collection
MutMergePolicy(store, local, remote) ==
  CASE store = "orders" -> local
    [] store = "inventory" -> remote
    [] store = "products" -> local
    [] OTHER -> IF local.timestamp > remote.timestamp THEN local ELSE remote

mergeConflict(store, local, remote) ==
  CASE store = "orders" -> local
    [] store = "inventory" -> remote
    [] store = "products" -> remote
    [] OTHER -> IF local.timestamp > remote.timestamp THEN local ELSE remote

MutResolveConflict(store, localItem, remoteItem) ==
  LET localIsNewer == compareVectorClocks(localItem.vectorClock, remoteItem.vectorClock)
  IN IF localIsNewer >= 0
     THEN [item |-> mergeConflict(store, localItem, remoteItem), merged |-> TRUE]
     ELSE [item |-> remoteItem, merged |-> FALSE]

\* returns the resolved record and whether mergeConflict was called for it
resolveConflict(store, localItem, remoteItem) ==
  LET localIsNewer == compareVectorClocks(localItem.vectorClock, remoteItem.vectorClock)
  IN IF localIsNewer = 0
     THEN [item |-> mergeConflict(store, localItem, remoteItem), merged |-> TRUE]
     ELSE IF localIsNewer > 0
     THEN [item |-> localItem, merged |-> FALSE]
     ELSE [item |-> remoteItem, merged |-> FALSE]

\* DataItem values the resolver is exercised on
LocalItems ==
  {[id |-> "r1", data |-> "local", version |-> t, deviceId |-> LocalDevice,
    timestamp |-> t, vectorClock |-> c, syncStatus |-> "pending"] :
      t \in 1..MaxStamp, c \in Clocks}

RemoteItems ==
  {[id |-> "r1", data |-> "remote", version |-> t, deviceId |-> ServerDevice,
    timestamp |-> t, vectorClock |-> c, syncStatus |-> "synced"] :
      t \in 1..MaxStamp, c \in Clocks}


\* ------------------------------------------------------------------ store
\* the DataItem put builds (OfflineDataStore.put)
NewItem(id, data) ==
  [id |-> id, data |-> data, version |-> now, deviceId |-> LocalDevice,
   timestamp |-> now, vectorClock |-> (LocalDevice :> now),
   syncStatus |-> IF isOnline THEN "synced" ELSE "pending"]

IdleCall == [pc |-> "idle", op |-> "none", store |-> "none", id |-> "none",
             data |-> Nil, item |-> Nil, online |-> FALSE, ahead |-> {}]

\* the calls that wait for a storage transaction on an entity store
TxPhases == {"putCommit", "delCommit", "getRead"}

\* IndexedDB runs the transactions on one object store in the order of their
\* creation: the callers whose transaction on the store is not finished yet
Ahead(store) == {o \in Callers : calls[o].pc \in TxPhases /\ calls[o].store = store}

\* the transaction of caller c is finished: whoever waited for it waits no more
Finished(c, cs) ==
  [o \in Callers |-> IF o = c THEN [cs[o] EXCEPT !.ahead = {}]
                               ELSE [cs[o] EXCEPT !.ahead = @ \ {c}]]

\* updateCache and removeCached on a cache
updateCache(c, store, id, item) == [c EXCEPT ![store][id] = item]

MutRemoveCached(c, store, id) == c

removeCached(c, store, id) == [c EXCEPT ![store][id] = Nil]

Range(seq) == {seq[i] : i \in DOMAIN seq}
Bump(n) == IF n < 2 THEN n + 1 ELSE 2

\* the payloads the application writes; 0 is the server's
Vals == 1..MaxWrites
\* one more delivery of payload v on the given path
Delivered(snt, v, path) ==
  IF v \in Vals THEN [snt EXCEPT ![v][path] = Bump(@)] ELSE snt

\* ids randomUUID has not returned yet
FreeOps == OpIds \ Range(enqOrder)

\* every call in progress and every unsettled push may still enqueue once
Reserve ==
  Cardinality(FreeOps) > Cardinality({c \in Callers : calls[c].pc # "idle"}) + BagCardinality(pushes)

\* the WriteOperation of queueWrite
WriteOp(opId, store, id, data) ==
  [id |-> opId, store |-> store, operation |-> "put", data |-> [id |-> id, data |-> data],
   timestamp |-> now, retryCount |-> 0]

\* the WriteOperation of queueDelete
DeleteOp(opId, store, id) ==
  [id |-> opId, store |-> store, operation |-> "delete", data |-> [id |-> id],
   timestamp |-> now, retryCount |-> 0]

\* objectStore.put of a new operation into 'syncQueue'
Enqueue(op) ==
  /\ syncQueue' = [syncQueue EXCEPT ![op.id] = op]
  /\ enqOrder' = Append(enqOrder, op.id)

\* query('syncQueue'): getAll() returns the records in key (id) order
RECURSIVE QueueFrom(_)
QueueFrom(k) ==
  IF k > MaxOps THEN <<>>
  ELSE (IF syncQueue[k] # Nil THEN <<syncQueue[k]>> ELSE <<>>) \o QueueFrom(k + 1)

\* put, up to the await of the storage transaction
PutBegin(c, store, id, data) ==
  /\ calls[c].pc = "idle"
  /\ Reserve
  /\ db' = [db EXCEPT ![store][id] = NewItem(id, data)]
  /\ calls' = [calls EXCEPT ![c] = [pc |-> "putCommit", op |-> "put", store |-> store,
                                    id |-> id, data |-> data, item |-> NewItem(id, data),
                                    online |-> isOnline, ahead |-> Ahead(store)]]

\* put after the transaction: cache, then queueWrite (offline) or syncItem
PutCommitted(c) ==
  LET call == calls[c] IN
  /\ call.pc = "putCommit" /\ call.ahead = {}
  /\ cache' = updateCache(cache, call.store, call.id, call.item)
  /\ IF ~isOnline
     THEN /\ \E o \in FreeOps : Enqueue(WriteOp(o, call.store, call.id, call.data))
          /\ calls' = Finished(c, [calls EXCEPT ![c].pc = "putQueue"])
          /\ UNCHANGED pushes
     ELSE /\ pushes' = pushes (+) SetToBag({[store |-> call.store, id |-> call.id, data |-> call.data]})
          /\ calls' = Finished(c, [calls EXCEPT ![c] = IdleCall])
          /\ UNCHANGED <<syncQueue, enqOrder>>
  /\ UNCHANGED <<db, conflicts, syncInProgress, drain, nextVal, attempts, sent>>

\* put after the awaited queueWrite: notifyListeners and return
PutQueued(c) ==
  /\ calls[c].pc = "putQueue"
  /\ calls' = [calls EXCEPT ![c] = IdleCall]
  /\ UNCHANGED <<db, cache, syncQueue, conflicts, syncInProgress, drain, pushes,
                 nextVal, enqOrder, attempts, sent>>

\* delete, up to the await of the storage transaction
DeleteBegin(c, store, id) ==
  /\ calls[c].pc = "idle"
  /\ Reserve
  /\ db[store][id] # Nil
  /\ db' = [db EXCEPT ![store][id] = Nil]
  /\ calls' = [calls EXCEPT ![c] = [pc |-> "delCommit", op |-> "delete", store |-> store,
                                    id |-> id, data |-> Nil, item |-> Nil,
                                    online |-> isOnline, ahead |-> Ahead(store)]]
  /\ UNCHANGED <<cache, syncQueue, conflicts, syncInProgress, drain, pushes,
                 nextVal, enqOrder, attempts, sent>>

\* delete after the transaction: removeCached, then queueDelete when offline
DeleteCommitted(c) ==
  LET call == calls[c] IN
  /\ call.pc = "delCommit" /\ call.ahead = {}
  /\ cache' = removeCached(cache, call.store, call.id)
  /\ IF ~isOnline
     THEN /\ \E o \in FreeOps : Enqueue(DeleteOp(o, call.store, call.id))
          /\ calls' = Finished(c, [calls EXCEPT ![c].pc = "delQueue"])
     ELSE /\ calls' = Finished(c, [calls EXCEPT ![c] = IdleCall])
          /\ UNCHANGED <<syncQueue, enqOrder>>
  /\ UNCHANGED <<db, conflicts, syncInProgress, drain, pushes, nextVal, attempts, sent>>

\* delete after the awaited queueDelete: notifyListeners and return
DeleteQueued(c) ==
  /\ calls[c].pc = "delQueue"
  /\ calls' = [calls EXCEPT ![c] = IdleCall]
  /\ UNCHANGED <<db, cache, syncQueue, conflicts, syncInProgress, drain, pushes,
                 nextVal, enqOrder, attempts, sent>>

\* the application writes a fresh payload
AppPutBy(c, store, id) ==
  /\ nextVal <= MaxWrites
  /\ PutBegin(c, store, id, [val |-> nextVal, synced |-> FALSE])
  /\ nextVal' = nextVal + 1
  /\ UNCHANGED <<cache, syncQueue, conflicts, syncInProgress, drain, pushes,
                 enqOrder, attempts, sent>>

AppPut(store, id) == AppPutBy("app", store, id)

\* get up to its return or its await: a cached item is returned at once, otherwise
\* getFromDB creates its transaction and reads the record
GetBegin(c, store, id) ==
  /\ calls[c].pc = "idle"
  /\ IF cache[store][id] # Nil
     THEN calls' = [calls EXCEPT ![c] = [IdleCall EXCEPT !.op = "get", !.store = store,
                                           !.id = id, !.item = cache[store][id]]]
     ELSE calls' = [calls EXCEPT ![c] = [IdleCall EXCEPT !.pc = "getRead", !.op = "get",
                                           !.store = store, !.id = id,
                                           !.item = db[store][id],
                                           !.ahead = Ahead(store)]]
  /\ UNCHANGED <<db, cache, syncQueue, conflicts, syncInProgress, drain, pushes,
                 nextVal, enqOrder, attempts, sent>>

\* get after getFromDB: an item that was found is cached, and returned
GetDone(c) ==
  LET call == calls[c] IN
  /\ call.pc = "getRead" /\ call.ahead = {}
  /\ cache' = IF call.item # Nil THEN updateCache(cache, call.store, call.id, call.item)
              ELSE cache
  /\ calls' = Finished(c, [calls EXCEPT ![c].pc = "idle"])
  /\ UNCHANGED <<db, syncQueue, conflicts, syncInProgress, drain, pushes,
                 nextVal, enqOrder, attempts, sent>>

\* the optimistic push of put settles: syncItem resolves
SyncItemResolved(p) ==
  /\ pushes' = pushes (-) SetToBag({p})
  /\ sent' = Delivered(sent, p.data.val, "optimistic")
  /\ UNCHANGED <<db, cache, syncQueue, conflicts, syncInProgress, drain, calls,
                 nextVal, enqOrder, attempts>>

\* syncItem rejects: the catch callback of put calls queueWrite
SyncItemRejected(p) ==
  /\ pushes' = pushes (-) SetToBag({p})
  /\ \E o \in FreeOps : Enqueue(WriteOp(o, p.store, p.id, p.data))
  /\ UNCHANGED <<db, cache, conflicts, syncInProgress, drain, calls,
                 nextVal, attempts, sent>>

\* the timer updateCache set fires
CacheExpire(store, id) ==
  /\ cache[store][id] # Nil
  /\ cache' = [cache EXCEPT ![store][id] = Nil]
  /\ UNCHANGED <<db, syncQueue, conflicts, syncInProgress, drain, calls, pushes,
                 nextVal, enqOrder, attempts, sent>>

\* ----------------------------------------------------------------- outbox
\* processQueuedWrites up to its first await; a no-op when a drain runs or offline.
\* online is the value isOnline has when it is called.
\* a drain that starts whenever the store is online
MutProcessQueuedWrites(online) ==
  IF ~online
  THEN UNCHANGED <<syncInProgress, drain>>
  ELSE /\ syncInProgress' = TRUE
       /\ drain' = [drain EXCEPT !.pc = "exec", !.ops = QueueFrom(1),
                                 !.active = @ + 1]

processQueuedWrites(online) ==
  IF syncInProgress \/ ~online
  THEN UNCHANGED <<syncInProgress, drain>>
  ELSE /\ syncInProgress' = TRUE
       /\ drain' = [drain EXCEPT !.pc = "exec", !.ops = QueueFrom(1),
                                 !.active = @ + 1]

\* executeQueuedOperation resolved: the entry is removed from the queue
DrainApplied ==
  LET op == Head(drain.ops) IN
  /\ drain.pc = "exec" /\ drain.ops # <<>>
  /\ attempts' = [attempts EXCEPT ![op.id] = [@ EXCEPT !.tried = @ + 1, !.acked = @ + 1]]
  /\ sent' = IF op.operation = "put"
             THEN Delivered(sent, op.data.data.val, "drain")
             ELSE sent
  /\ syncQueue' = [syncQueue EXCEPT ![op.id] = Nil]
  /\ drain' = [drain EXCEPT !.ops = Tail(@)]
  /\ UNCHANGED <<db, cache, conflicts, syncInProgress, calls, pushes, nextVal, enqOrder>>

\* a failure handler that gives the entry up at the first failure
MutHandleSyncFailure(op, error) ==
  /\ syncQueue' = [syncQueue EXCEPT ![op.id] = Nil]
  /\ drain' = [drain EXCEPT !.ops = Tail(@)]
  /\ UNCHANGED conflicts

\* a failure handler that allows one attempt more
MutRetryLimit(op, error) ==
  LET failed == [op EXCEPT !.retryCount = @ + 1] IN
  IF failed.retryCount > MAX_RETRY_ATTEMPTS
  THEN /\ conflicts' = [conflicts EXCEPT ![op.id] = [op |-> failed, error |-> error]]
       /\ drain' = [drain EXCEPT !.pc = "deadLetter"]
       /\ UNCHANGED syncQueue
  ELSE /\ syncQueue' = [syncQueue EXCEPT ![op.id] = failed]
       /\ drain' = [drain EXCEPT !.ops = Tail(@)]
       /\ UNCHANGED conflicts

\* handleSyncFailure up to its first await; error is the rejection's message
handleSyncFailure(op, error) ==
  LET failed == [op EXCEPT !.retryCount = @ + 1] IN
  IF failed.retryCount >= MAX_RETRY_ATTEMPTS
  THEN /\ conflicts' = [conflicts EXCEPT ![op.id] = [op |-> failed, error |-> error]]
       /\ drain' = [drain EXCEPT !.pc = "deadLetter"]
       /\ UNCHANGED syncQueue
  ELSE /\ syncQueue' = [syncQueue EXCEPT ![op.id] = failed]
       /\ drain' = [drain EXCEPT !.ops = Tail(@)]
       /\ UNCHANGED conflicts

\* executeQueuedOperation rejected with the given error
DrainFailed(error) ==
  LET op == Head(drain.ops) IN
  /\ drain.pc = "exec" /\ drain.ops # <<>>
  /\ attempts' = [attempts EXCEPT ![op.id] = [@ EXCEPT !.tried = @ + 1, !.lastError = error]]
  /\ handleSyncFailure(op, error)
  /\ UNCHANGED <<db, cache, syncInProgress, calls, pushes, nextVal, enqOrder, sent>>

\* handleSyncFailure after the dead-letter write: remove from the sync queue
DrainDeadLettered ==
  /\ drain.pc = "deadLetter"
  /\ syncQueue' = [syncQueue EXCEPT ![Head(drain.ops).id] = Nil]
  /\ drain' = [drain EXCEPT !.pc = "exec", !.ops = Tail(@)]
  /\ UNCHANGED <<db, cache, conflicts, syncInProgress, calls, pushes, nextVal,
                 enqOrder, attempts, sent>>

\* the loop is over: the finally block
DrainFinished ==
  /\ drain.pc = "exec" /\ drain.ops = <<>>
  /\ syncInProgress' = FALSE
  /\ drain' = [drain EXCEPT !.pc = "idle", !.ops = <<>>, !.active = @ - 1]
  /\ UNCHANGED <<db, cache, syncQueue, conflicts, calls, pushes, nextVal,
                 enqOrder, attempts, sent>>

\* a storage transaction of the drain rejects (the query, the removal, or a write of
\* handleSyncFailure inside the catch): the exception leaves the loop and the
\* finally block runs
DrainAborted ==
  /\ drain.pc \in {"exec", "deadLetter"}
  /\ drain.aborts < MaxAborts
  /\ syncInProgress' = FALSE
  /\ drain' = [pc |-> "idle", ops |-> <<>>, active |-> drain.active - 1,
               aborts |-> drain.aborts + 1]
  /\ UNCHANGED <<db, cache, syncQueue, conflicts, calls, pushes, nextVal,
                 enqOrder, attempts, sent>>

\* startBackgroundSync's interval fires
BackgroundSweep ==
  /\ isOnline
  /\ processQueuedWrites(isOnline)
  /\ UNCHANGED <<db, cache, syncQueue, conflicts, calls, pushes, nextVal,
                 enqOrder, attempts, sent>>

\* ------------------------------------------------------------ environment
\* the window's 'online' event: the store's listener
GoOnline ==
  /\ ~isOnline
  /\ isOnline' = TRUE
  /\ processQueuedWrites(TRUE)
  /\ UNCHANGED <<now, db, cache, syncQueue, conflicts, calls, pushes, nextVal,
                 enqOrder, attempts, sent>>

\* the window's 'offline' event
GoOffline ==
  /\ isOnline
  /\ isOnline' = FALSE
  /\ UNCHANGED <<now, storeVars>>

Tick ==
  /\ now < MaxTime
  /\ now' = now + 1
  /\ UNCHANGED <<isOnline, storeVars>>

\* ------------------------------------------------------------ sync engine
\* sync()'s default entity list, and query(entity)'s order of the record ids
DefaultEntities == <<"inventory", "orders">>
RecOrder == <<"r1", "r2", "r3">>

\* the collections the server has changes for, and what it may return for them:
\* remote records with and without a vector clock of their own
RemoteStores == {"orders"}
RemoteData ==
  {[id |-> "r1", val |-> 0, updatedAt |-> 1, vectorClock |-> c] :
     c \in {<<>>, (ServerDevice :> 1)}}
PullResponses(e, pages) ==
  {[items |-> its, hasMore |-> h] :
     its \in (IF e \in RemoteStores THEN {<<>>} \cup {<<d>> : d \in RemoteData} ELSE {<<>>}),
     h \in (IF e \in RemoteStores /\ pages < MaxPages THEN BOOLEAN ELSE {FALSE})}

\* the pages the server may answer the GET in flight with
PullChoices ==
  IF sy.pc = "pull" THEN PullResponses(Head(sy.entities), sy.pages) ELSE {}

IdleSync == [pc |-> "idle", entities |-> <<>>, batchSize |-> 0, ids |-> <<>>,
             total |-> 0, synced |-> 0, batches |-> <<>>, items |-> <<>>,
             pageLen |-> 0, hasMore |-> FALSE, pages |-> 0, deleted |-> <<>>]

InitialSyncState ==
  [status |-> "idle", lastSync |-> 0, lastError |-> "none", itemsSynced |-> 0,
   itemsPending |-> 0, progress |-> 0]

\* the engine's state as one value, for the helpers below
Cur == [sy |-> sy, st |-> syncState, ts |-> lastSyncTs, busy |-> engineSyncInProgress,
        abort |-> abortController, active |-> activeSyncs, cache |-> cache]

Apply(E) ==
  /\ sy' = E.sy
  /\ syncState' = E.st
  /\ lastSyncTs' = E.ts
  /\ engineSyncInProgress' = E.busy
  /\ abortController' = E.abort
  /\ activeSyncs' = E.active
  /\ cache' = E.cache

\* pushLocalChanges: Math.floor((synced / totalChanges) * 50)
pushProgress(synced, totalChanges) == (synced * 50) \div totalChanges

\* a pull progress that leaves out the division by the page's length
MutPullProgress(synced, length) == 50 + synced * 50

\* pullRemoteChanges: 50 + Math.floor((synced / items.length) * 50)
pullProgress(synced, length) == 50 + ((synced * 50) \div length)

\* updateSyncState: { ...current, ...updates }
updateSyncState(st, e, updates) ==
  [st EXCEPT ![e] = [f \in DOMAIN st[e] |->
                       IF f \in DOMAIN updates THEN updates[f] ELSE st[e][f]]]

\* get: the cached item, else the stored one, which it then caches
getItem(c, store, id) == IF c[store][id] # Nil THEN c[store][id] ELSE db[store][id]
cacheAfterGet(c, store, id) ==
  IF c[store][id] = Nil /\ db[store][id] # Nil
  THEN [c EXCEPT ![store][id] = db[store][id]]
  ELSE c

RECURSIVE cacheAfterGets(_, _, _)
cacheAfterGets(c, store, ids) ==
  IF ids = <<>> THEN c
  ELSE cacheAfterGets(cacheAfterGet(c, store, Head(ids)), store, Tail(ids))

\* the items pushLocalChanges gets for a batch, nulls filtered out
batchItems(c, store, ids) ==
  SelectSeq([k \in DOMAIN ids |-> getItem(c, store, ids[k])], LAMBDA it : it # Nil)

RECURSIVE createBatches(_, _)
createBatches(items, batchSize) ==
  IF items = <<>> THEN <<>>
  ELSE IF Len(items) <= batchSize THEN <<items>>
  ELSE <<SubSeq(items, 1, batchSize)>>
         \o createBatches(SubSeq(items, batchSize + 1, Len(items)), batchSize)

\* detectLocalChanges, first part: the pending items newer than the last sync
\* (no payload of this application has isNew, so all of them are 'updated')
changedIds(e, ts) ==
  SelectSeq(RecOrder, LAMBDA i : /\ db[e][i] # Nil
                                 /\ db[e][i].syncStatus = "pending"
                                 /\ db[e][i].timestamp > ts[e])

\* detectLocalChanges, second part: the deletions it finds in the sync queue
deletedIds(e) ==
  LET ops == QueueFrom(1)
      hit == SelectSeq(ops, LAMBDA op : /\ "operation" \in DOMAIN op.data
                                        /\ op.data.operation = "delete"
                                        /\ op.data.store = e)
  IN [k \in DOMAIN hit |-> hit[k].data.data.id]

\* syncEntity up to the first await, inside detectLocalChanges
startEntity(E, entities, batchSize) ==
  LET e == Head(entities) IN
  [E EXCEPT !.st = updateSyncState(E.st, e,
                     [status |-> "syncing", itemsSynced |-> 0, progress |-> 0]),
            !.sy = [IdleSync EXCEPT !.pc = "detect", !.entities = entities,
                                    !.batchSize = batchSize,
                                    !.ids = changedIds(e, E.ts)]]

\* a sync() whose lock stays taken when the call ends after a cancellation
MutFinishSync(E) ==
  [E EXCEPT !.busy = (E.abort = "aborted"), !.abort = "null", !.sy = IdleSync,
            !.active = @ - 1]

\* sync()'s finally block
finishSync(E) ==
  [E EXCEPT !.busy = FALSE, !.abort = "null", !.sy = IdleSync, !.active = @ - 1]

\* handleSyncError: every entity still 'syncing' becomes 'error'
handleSyncError(st, msg) ==
  [e \in Entities |-> IF st[e].status = "syncing"
                      THEN [st[e] EXCEPT !.status = "error", !.lastError = msg]
                      ELSE st[e]]

\* a failing cycle that releases the lock and leaves the states as they are
MutFailCycle(E, msg) == finishSync(E)

\* an error thrown inside syncEntity: its catch, then sync()'s catch and finally
failCycle(E, msg) ==
  LET e == Head(E.sy.entities)
      st1 == updateSyncState(E.st, e,
               [status |-> "error", lastError |-> msg, progress |-> 0])
  IN finishSync([E EXCEPT !.st = handleSyncError(st1, msg)])

\* syncEntity's step 3, then the next entity of sync()'s loop or its end
entitySucceeded(E) ==
  LET e == Head(E.sy.entities)
      E1 == [E EXCEPT !.st = updateSyncState(E.st, e,
                               [status |-> "success", lastSync |-> now,
                                lastError |-> "none", progress |-> 100]),
                      !.ts = [E.ts EXCEPT ![e] = now]]
  IN IF Tail(E.sy.entities) # <<>>
     THEN startEntity(E1, Tail(E.sy.entities), E.sy.batchSize)
     ELSE finishSync(E1)

\* pullRemoteChanges up to the await of its fetch
beginPull(E) ==
  [E EXCEPT !.sy = [IdleSync EXCEPT !.pc = "pull", !.entities = E.sy.entities,
                                    !.batchSize = E.sy.batchSize,
                                    !.pages = E.sy.pages + 1]]

\* pushLocalChanges: the next batch's gets and upload, or the end of the push
nextBatch(E) ==
  LET e == Head(E.sy.entities) IN
  IF E.sy.batches # <<>>
  THEN [E EXCEPT !.sy = [@ EXCEPT !.pc = "upload",
                                  !.items = batchItems(E.cache, e, Head(E.sy.batches))],
                 !.cache = cacheAfterGets(E.cache, e, Head(E.sy.batches))]
  ELSE beginPull(E)

\* a sync() call that goes past both guards, as MutSync below
startSync(online, entities, batchSize) ==
  /\ syncCalls < MaxSyncCalls
  /\ syncCalls' = syncCalls + 1
  /\ UNCHANGED <<skipped, pendingJobs>>
  /\ Apply(startEntity([Cur EXCEPT !.busy = TRUE, !.abort = "live", !.active = @ + 1],
                          entities, batchSize))

skipSync(busy) ==
  /\ syncCalls < MaxSyncCalls
  /\ syncCalls' = syncCalls + 1
  /\ skipped' = (skipped \/ busy)
  /\ UNCHANGED <<engineSyncInProgress, abortController, syncState, lastSyncTs, sy,
                 activeSyncs, cache, pendingJobs>>

\* a sync() that does not look at syncInProgress
MutSync(online, entities, batchSize) ==
  IF ~online THEN skipSync(FALSE) ELSE startSync(online, entities, batchSize)

\* sync() up to its first await. online is navigator.onLine at the call.
sync(online, entities, batchSize) ==
  IF engineSyncInProgress THEN skipSync(TRUE)
  ELSE IF ~online THEN skipSync(FALSE)
  ELSE startSync(online, entities, batchSize)

\* detectLocalChanges returned: the batches, and the first upload or the pull
SyncDetected ==
  LET e == Head(sy.entities)
      deleted == deletedIds(e)
      totalChanges == Len(sy.ids) + Len(deleted)
  IN
  /\ sy.pc = "detect"
  /\ IF totalChanges = 0
     THEN Apply(beginPull(Cur))
     ELSE Apply(nextBatch([Cur EXCEPT !.sy = [@ EXCEPT !.total = totalChanges,
                               !.deleted = deleted,
                               !.batches = createBatches(sy.ids, sy.batchSize)]]))
  /\ UNCHANGED <<now, isOnline, db, syncQueue, conflicts, syncInProgress, drain, calls,
                 pushes, nextVal, enqOrder, attempts, sent, skipped, syncCalls,
                 pendingJobs, autoSyncTimer, ticks>>

RECURSIVE sentAfterUpload(_, _)
sentAfterUpload(snt, items) ==
  IF items = <<>> THEN snt
  ELSE sentAfterUpload(Delivered(snt, Head(items).data.val, "push"), Tail(items))

\* uploadBatch: the POST was answered 2xx
SyncUploadOk ==
  /\ sy.pc = "upload" /\ abortController = "live"
  /\ sent' = sentAfterUpload(sent, sy.items)
  /\ sy' = [sy EXCEPT !.pc = "mark"]
  /\ UNCHANGED <<now, isOnline, db, cache, syncQueue, conflicts, syncInProgress, drain,
                 calls, pushes, nextVal, enqOrder, attempts,
                 engineSyncInProgress, abortController, syncState, lastSyncTs,
                 activeSyncs, skipped, syncCalls,
                 pendingJobs, autoSyncTimer, ticks>>

\* uploadBatch: put of the next uploaded item, marked synced in its payload
SyncMarkItem ==
  LET e == Head(sy.entities)
      item == Head(sy.items)
  IN
  /\ sy.pc = "mark" /\ sy.items # <<>>
  /\ PutBegin("sync", e, item.id, [item.data EXCEPT !.synced = TRUE])
  /\ sy' = [sy EXCEPT !.items = Tail(@)]
  /\ UNCHANGED <<now, isOnline, cache, syncQueue, conflicts, syncInProgress, drain,
                 pushes, nextVal, enqOrder, attempts, sent,
                 engineSyncInProgress, abortController, syncState, lastSyncTs,
                 activeSyncs, skipped, syncCalls,
                 pendingJobs, autoSyncTimer, ticks>>

\* pushLocalChanges after uploadBatch returned: progress, then the next batch
SyncBatchDone ==
  LET e == Head(sy.entities)
      synced == sy.synced + Len(Head(sy.batches))
      E1 == [Cur EXCEPT !.st = updateSyncState(syncState, e,
                                 [itemsSynced |-> synced,
                                  progress |-> pushProgress(synced, sy.total)]),
                        !.sy = [@ EXCEPT !.synced = synced, !.batches = Tail(@)]]
  IN
  /\ sy.pc = "mark" /\ sy.items = <<>> /\ calls["sync"].pc = "idle"
  /\ Apply(nextBatch(E1))
  /\ UNCHANGED <<now, isOnline, db, syncQueue, conflicts, syncInProgress, drain, calls,
                 pushes, nextVal, enqOrder, attempts, sent, skipped, syncCalls,
                 pendingJobs, autoSyncTimer, ticks>>

\* uploadBatch: the POST was answered with an error status, or failed
SyncUploadFailed ==
  /\ sy.pc = "upload" /\ abortController = "live"
  /\ Apply(failCycle(Cur, "Upload failed"))
  /\ UNCHANGED <<now, isOnline, db, syncQueue, conflicts, syncInProgress, drain, calls,
                 pushes, nextVal, enqOrder, attempts, sent, skipped, syncCalls,
                 pendingJobs, autoSyncTimer, ticks>>

\* a fetch with an aborted signal rejects with AbortError
SyncAborted ==
  /\ sy.pc \in {"upload", "pull"} /\ abortController = "aborted"
  /\ Apply(failCycle(Cur, "Sync cancelled"))
  /\ UNCHANGED <<now, isOnline, db, syncQueue, conflicts, syncInProgress, drain, calls,
                 pushes, nextVal, enqOrder, attempts, sent, skipped, syncCalls,
                 pendingJobs, autoSyncTimer, ticks>>

\* a fetch that delivers its response although its signal was aborted
MutPullOk(resp) ==
  /\ sy.pc = "pull"
  /\ sy' = [sy EXCEPT !.pc = "merge", !.items = resp.items, !.hasMore = resp.hasMore,
                      !.pageLen = Len(resp.items), !.synced = 0]
  /\ UNCHANGED <<now, isOnline, storeVars, engineSyncInProgress, abortController,
                 syncState, lastSyncTs, activeSyncs, skipped, syncCalls,
                 pendingJobs, autoSyncTimer, ticks>>

\* pullRemoteChanges: the GET was answered with a page
SyncPullOk(resp) ==
  /\ sy.pc = "pull" /\ abortController = "live"
  /\ sy' = [sy EXCEPT !.pc = "merge", !.items = resp.items, !.hasMore = resp.hasMore,
                      !.pageLen = Len(resp.items), !.synced = 0]
  /\ UNCHANGED <<now, isOnline, storeVars, engineSyncInProgress, abortController,
                 syncState, lastSyncTs, activeSyncs, skipped, syncCalls,
                 pendingJobs, autoSyncTimer, ticks>>

\* pullRemoteChanges: the GET was answered with an error status, or failed
SyncPullFailed ==
  /\ sy.pc = "pull" /\ abortController = "live"
  /\ Apply(failCycle(Cur, "Fetch failed"))
  /\ UNCHANGED <<now, isOnline, db, syncQueue, conflicts, syncInProgress, drain, calls,
                 pushes, nextVal, enqOrder, attempts, sent, skipped, syncCalls,
                 pendingJobs, autoSyncTimer, ticks>>

\* the payload mergeRemoteItem puts: { ...d, syncStatus: 'synced' }
markedPayload(d) == [val |-> d.val, synced |-> TRUE]

\* the DataItem mergeRemoteItem builds from the server's record
remoteItemOf(remoteData) ==
  [id |-> remoteData.id, data |-> remoteData, version |-> now, deviceId |-> ServerDevice,
   timestamp |-> remoteData.updatedAt, vectorClock |-> remoteData.vectorClock,
   syncStatus |-> "synced"]

\* the (id, payload) mergeRemoteItem puts for a remote record, given the local item
mergeTarget(e, localItem, remoteData) ==
  IF localItem = Nil \/ localItem.syncStatus # "pending"
  THEN [id |-> remoteData.id, data |-> markedPayload(remoteData)]
  ELSE LET resolved == resolveConflict(e, localItem, remoteItemOf(remoteData)).item
       IN [id |-> resolved.id, data |-> markedPayload(resolved.data)]

\* the progress update after a merged item, when one was merged before this step
afterMerged(st, e) ==
  IF sy.synced = 0 THEN st
  ELSE updateSyncState(st, e, [itemsSynced |-> sy.synced,
                               progress |-> pullProgress(sy.synced, sy.pageLen)])

\* mergeRemoteItem of the page's next record: its get, then put up to its await
SyncMergeItem ==
  LET e == Head(sy.entities)
      remoteData == Head(sy.items)
      target == mergeTarget(e, getItem(cache, e, remoteData.id), remoteData)
  IN
  /\ sy.pc = "merge" /\ sy.items # <<>> /\ calls["sync"].pc = "idle"
  /\ syncState' = afterMerged(syncState, e)
  /\ PutBegin("sync", e, target.id, target.data)
  /\ cache' = cacheAfterGet(cache, e, remoteData.id)
  /\ sy' = [sy EXCEPT !.items = Tail(@), !.synced = @ + 1]
  /\ UNCHANGED <<now, isOnline, syncQueue, conflicts, syncInProgress, drain,
                 pushes, nextVal, enqOrder, attempts, sent,
                 engineSyncInProgress, abortController, lastSyncTs,
                 activeSyncs, skipped, syncCalls,
                 pendingJobs, autoSyncTimer, ticks>>

\* the page is merged: the next page, or the entity is done
SyncPageDone ==
  LET e == Head(sy.entities)
      E1 == [Cur EXCEPT !.st = afterMerged(syncState, e)]
  IN
  /\ sy.pc = "merge" /\ sy.items = <<>> /\ calls["sync"].pc = "idle"
  /\ Apply(IF sy.hasMore THEN beginPull(E1) ELSE entitySucceeded(E1))
  /\ UNCHANGED <<now, isOnline, db, syncQueue, conflicts, syncInProgress, drain, calls,
                 pushes, nextVal, enqOrder, attempts, sent, skipped, syncCalls,
                 pendingJobs, autoSyncTimer, ticks>>

\* cancelSync
cancelSync ==
  /\ abortController = "live"
  /\ abortController' = "aborted"
  /\ UNCHANGED <<now, isOnline, storeVars, engineSyncInProgress, syncState, lastSyncTs,
                 sy, activeSyncs, skipped, syncCalls,
                 pendingJobs, autoSyncTimer, ticks>>

\* a caller of sync(options): the UI, or startAutoSync's initial call
ManualSync(entities) ==
  /\ sync(isOnline, entities, BATCH_SIZE)
  /\ UNCHANGED <<now, isOnline, db, syncQueue, conflicts, syncInProgress, drain, calls,
                 pushes, nextVal, enqOrder, attempts, sent,
                 autoSyncTimer, ticks>>

\* startAutoSync's interval fires
AutoSyncTick ==
  /\ isOnline /\ ~engineSyncInProgress
  /\ sync(isOnline, DefaultEntities, BATCH_SIZE)
  /\ UNCHANGED <<now, isOnline, db, syncQueue, conflicts, syncInProgress, drain, calls,
                 pushes, nextVal, enqOrder, attempts, sent,
                 autoSyncTimer, ticks>>

\* the window's 'online' event: the store's listener, then the engine's
EngineGoOnline ==
  /\ ~isOnline
  /\ isOnline' = TRUE
  /\ processQueuedWrites(TRUE)
  /\ sync(TRUE, DefaultEntities, BATCH_SIZE)
  /\ UNCHANGED <<now, db, syncQueue, conflicts, calls, pushes, nextVal,
                 enqOrder, attempts, sent, autoSyncTimer, ticks>>

EngineInit ==
  /\ engineSyncInProgress = FALSE
  /\ abortController = "null"
  /\ syncState = [e \in Entities |-> InitialSyncState]
  /\ lastSyncTs = [e \in Entities |-> 0]
  /\ sy = IdleSync
  /\ activeSyncs = 0
  /\ skipped = FALSE
  /\ syncCalls = 0
  /\ pendingJobs = <<>>
  /\ autoSyncTimer = FALSE
  /\ ticks = 0

StoreInit ==
  /\ now = 1
  /\ isOnline \in BOOLEAN
  /\ db = [s \in Entities |-> [i \in StoreIds |-> Nil]]
  /\ cache = [s \in Entities |-> [i \in StoreIds |-> Nil]]
  /\ syncQueue = [o \in OpIds |-> Nil]
  /\ conflicts = [o \in OpIds |-> Nil]
  /\ syncInProgress = FALSE
  /\ drain = [pc |-> "idle", ops |-> <<>>, active |-> 0, aborts |-> 0]
  /\ calls = [c \in Callers |-> IdleCall]
  /\ pushes = EmptyBag
  /\ nextVal = 1
  /\ enqOrder = <<>>
  /\ attempts = [o \in OpIds |-> [tried |-> 0, acked |-> 0, lastError |-> "none"]]
  /\ sent = [v \in Vals |-> [drain |-> 0, push |-> 0, optimistic |-> 0]]

ResolverIdle ==
  /\ rArgs = Nil /\ rCmp = Nil /\ rOut = Nil /\ rSeen = {} /\ rCalls = 0

\* no transaction of executeTransaction has been opened
NoTx == [pc |-> "none", stores |-> {}, writes |-> {}, end |-> "returns",
         settled |-> TRUE, promise |-> "none"]

SideInit ==
  /\ tx = NoTx
  /\ listeners = [store |-> <<>>, engine |-> <<>>]
  /\ notified = [by |-> "none", got |-> {}, result |-> "none"]
  /\ printJobs = <<>>
  /\ delays = {}
  /\ remoteLog = <<>>

Init == StoreInit /\ EngineInit /\ ResolverIdle /\ SideInit

envVars == <<now, isOnline, engineVars, restVars>>

Next ==
  \/ \E s \in AppStores, i \in RecIds : AppPut(s, i) /\ UNCHANGED envVars
  \/ \E c \in Callers : PutCommitted(c) /\ UNCHANGED envVars
  \/ \E c \in Callers : PutQueued(c) /\ UNCHANGED envVars
  \/ \E s \in AppStores, i \in RecIds : DeleteBegin("app", s, i) /\ UNCHANGED envVars
  \/ \E c \in Callers : DeleteCommitted(c) /\ UNCHANGED envVars
  \/ \E c \in Callers : DeleteQueued(c) /\ UNCHANGED envVars
  \/ \E p \in BagToSet(pushes) : SyncItemResolved(p) /\ UNCHANGED envVars
  \/ \E p \in BagToSet(pushes) : SyncItemRejected(p) /\ UNCHANGED envVars
  \/ \E s \in Entities, i \in RecIds : CacheExpire(s, i) /\ UNCHANGED envVars
  \/ DrainApplied /\ UNCHANGED envVars
  \/ \E error \in Errors : DrainFailed(error) /\ UNCHANGED envVars
  \/ DrainDeadLettered /\ UNCHANGED envVars
  \/ DrainFinished /\ UNCHANGED envVars
  \/ BackgroundSweep /\ UNCHANGED envVars
  \/ GoOnline /\ UNCHANGED <<engineVars, restVars>>
  \/ GoOffline /\ UNCHANGED <<engineVars, restVars>>
  \/ Tick /\ UNCHANGED <<engineVars, restVars>>

Spec == Init /\ [][Next]_vars

\* the store together with the sync engine, within one reading of the clock
SyncNext ==
  \/ \E s \in AppStores, i \in RecIds : nextVal <= MaxSyncWrites /\ AppPut(s, i) /\ UNCHANGED envVars
  \/ \E c \in Callers : PutCommitted(c) /\ UNCHANGED envVars
  \/ \E c \in Callers : PutQueued(c) /\ UNCHANGED envVars
  \/ \E p \in BagToSet(pushes) : SyncItemResolved(p) /\ UNCHANGED envVars
  \/ \E p \in BagToSet(pushes) : SyncItemRejected(p) /\ UNCHANGED envVars
  \/ DrainApplied /\ UNCHANGED envVars
  \/ DrainFinished /\ UNCHANGED envVars
  \/ EngineGoOnline /\ UNCHANGED restVars
  \/ GoOffline /\ UNCHANGED <<engineVars, restVars>>
  \/ \E es \in {DefaultEntities, <<"orders">>} : ManualSync(es) /\ UNCHANGED restVars
  \/ AutoSyncTick /\ UNCHANGED restVars
  \/ cancelSync /\ UNCHANGED restVars
  \/ SyncDetected /\ UNCHANGED restVars
  \/ SyncUploadOk /\ UNCHANGED restVars
  \/ SyncUploadFailed /\ UNCHANGED restVars
  \/ SyncMarkItem /\ UNCHANGED restVars
  \/ SyncBatchDone /\ UNCHANGED restVars
  \/ SyncAborted /\ UNCHANGED restVars
  \/ \E r \in PullChoices : SyncPullOk(r) /\ UNCHANGED restVars
  \/ SyncPullFailed /\ UNCHANGED restVars
  \/ SyncMergeItem /\ UNCHANGED restVars
  \/ SyncPageDone /\ UNCHANGED restVars

SpecSync == Init /\ [][SyncNext]_vars

\* ------------------------------------------- the engine against a paging server
\* the records the server holds per collection, in the order it returns them
ServerLog(e) ==
  IF e \in RemoteStores
  THEN <<[id |-> "r1", val |-> 0, updatedAt |-> 1, vectorClock |-> <<>>],
         [id |-> "r2", val |-> 0, updatedAt |-> 1, vectorClock |-> <<>>],
         [id |-> "r3", val |-> 0, updatedAt |-> 2, vectorClock |-> <<>>]>>
  ELSE <<>>

\* the records of a collection changed after since
ChangedSince(e, since) == SelectSeq(ServerLog(e), LAMBDA d : d.updatedAt > since)

\* GET /<entity>/changes?since=<timestamp>&limit=<number>: the first limit records
\* changed after since, and whether more are left
serverChanges(e, since, limit) ==
  LET newer == ChangedSince(e, since) IN
  [items |-> SubSeq(newer, 1, IF Len(newer) < limit THEN Len(newer) ELSE limit),
   hasMore |-> Len(newer) > limit]

\* the batchSize options a caller passes
PageLimits == {1, 2, BATCH_SIZE}

\* sync({fullSync: false, entities, batchSize})
PagedSync(entities, batchSize) ==
  /\ sync(isOnline, entities, batchSize)
  /\ UNCHANGED <<now, isOnline, db, syncQueue, conflicts, syncInProgress, drain, calls,
                 pushes, nextVal, enqOrder, attempts, sent,
                 autoSyncTimer, ticks>>

\* pullRemoteChanges: the GET, with since read from localStorage (fullSync is false
\* on every request) and limit = batchSize, was answered by the server
PagedPullOk ==
  /\ sy.pc = "pull" /\ sy.pages <= MaxRequests
  /\ SyncPullOk(serverChanges(Head(sy.entities), lastSyncTs[Head(sy.entities)],
                              sy.batchSize))

PullNext ==
  \/ \E es \in {DefaultEntities, <<"orders">>}, bs \in PageLimits :
       PagedSync(es, bs) /\ UNCHANGED restVars
  \/ \E c \in Callers : PutCommitted(c) /\ UNCHANGED envVars
  \/ \E c \in Callers : PutQueued(c) /\ UNCHANGED envVars
  \/ \E p \in BagToSet(pushes) : SyncItemResolved(p) /\ UNCHANGED envVars
  \/ \E p \in BagToSet(pushes) : SyncItemRejected(p) /\ UNCHANGED envVars
  \/ DrainApplied /\ UNCHANGED envVars
  \/ DrainFinished /\ UNCHANGED envVars
  \/ EngineGoOnline /\ UNCHANGED restVars
  \/ GoOffline /\ UNCHANGED <<engineVars, restVars>>
  \/ cancelSync /\ UNCHANGED restVars
  \/ SyncDetected /\ UNCHANGED restVars
  \/ SyncUploadOk /\ UNCHANGED restVars
  \/ SyncUploadFailed /\ UNCHANGED restVars
  \/ SyncMarkItem /\ UNCHANGED restVars
  \/ SyncBatchDone /\ UNCHANGED restVars
  \/ SyncAborted /\ UNCHANGED restVars
  \/ PagedPullOk /\ UNCHANGED restVars
  \/ SyncPullFailed /\ UNCHANGED restVars
  \/ SyncMergeItem /\ UNCHANGED restVars
  \/ SyncPageDone /\ UNCHANGED restVars

SpecPull == Init /\ [][PullNext]_vars

\* ------------------------------- the engine with its subscription to 'orders'
\* notifyListeners(store) with the engine's subscriber of setupEventListeners:
\* updatePendingCount('orders') up to its first await, in detectLocalChanges
notifyListeners(store) ==
  IF store = "orders"
  THEN /\ Len(pendingJobs) < MaxJobs
       /\ pendingJobs' = Append(pendingJobs,
                                [pc |-> "query", since |-> lastSyncTs["orders"], n |-> 0])
  ELSE UNCHANGED pendingJobs

\* put returns online: the cache, syncItem started, then notifyListeners;
\* offline it goes on to queueWrite
PutCommittedNotify(c) ==
  /\ PutCommitted(c)
  /\ IF isOnline THEN notifyListeners(calls[c].store) ELSE UNCHANGED pendingJobs

\* put returns offline: after the awaited queueWrite, notifyListeners
PutQueuedNotify(c) ==
  /\ PutQueued(c)
  /\ notifyListeners(calls[c].store)

\* detectLocalChanges of the oldest call that has not read the orders yet:
\* query('orders') answered, the pending items newer than lastSync counted
CountRead ==
  \E k \in DOMAIN pendingJobs :
    /\ pendingJobs[k].pc = "query"
    /\ \A j \in 1..(k - 1) : pendingJobs[j].pc = "queue"
    /\ pendingJobs' = [pendingJobs EXCEPT ![k] =
         [pc |-> "queue", since |-> @.since,
          n |-> Len(changedIds("orders", [e \in Entities |-> pendingJobs[k].since]))]]
    /\ UNCHANGED <<now, isOnline, storeVars, engineSyncInProgress, abortController,
                   syncState, lastSyncTs, sy, activeSyncs, skipped, syncCalls, autoSyncTimer, ticks>>

\* query('syncQueue') answered: updatePendingCount sets itemsPending
CountDone ==
  /\ pendingJobs # <<>> /\ Head(pendingJobs).pc = "queue"
  /\ syncState' = updateSyncState(syncState, "orders",
                    [itemsPending |-> Head(pendingJobs).n + Len(deletedIds("orders"))])
  /\ pendingJobs' = Tail(pendingJobs)
  /\ UNCHANGED <<now, isOnline, storeVars, engineSyncInProgress, abortController,
                 lastSyncTs, sy, activeSyncs, skipped, syncCalls, autoSyncTimer, ticks>>

\* all of the engine's variables but pendingJobs
engineCore == <<engineSyncInProgress, abortController, syncState, lastSyncTs, sy,
                activeSyncs, skipped, syncCalls, autoSyncTimer, ticks>>

\* pullRemoteChanges: the GET was answered by a server without changes
QuietPullOk == SyncPullOk([items |-> <<>>, hasMore |-> FALSE])

\* the application writes once, offline, before the first sync() call
PendingNext ==
  \/ \E s \in AppStores, i \in RecIds :
       /\ nextVal <= MaxSyncWrites /\ syncCalls = 0 /\ ~isOnline
       /\ AppPut(s, i) /\ UNCHANGED envVars
  \/ \E c \in Callers :
       PutCommittedNotify(c) /\ UNCHANGED <<now, isOnline, engineCore, restVars>>
  \/ \E c \in Callers :
       PutQueuedNotify(c) /\ UNCHANGED <<now, isOnline, engineCore, restVars>>
  \/ \E p \in BagToSet(pushes) : SyncItemResolved(p) /\ UNCHANGED envVars
  \/ DrainApplied /\ UNCHANGED envVars
  \/ DrainFinished /\ UNCHANGED envVars
  \/ CountRead /\ UNCHANGED restVars
  \/ CountDone /\ UNCHANGED restVars
  \/ EngineGoOnline /\ UNCHANGED restVars
  \/ GoOffline /\ UNCHANGED <<engineVars, restVars>>
  \/ ManualSync(<<"orders">>) /\ UNCHANGED restVars
  \/ SyncDetected /\ UNCHANGED restVars
  \/ SyncUploadOk /\ UNCHANGED restVars
  \/ SyncUploadFailed /\ UNCHANGED restVars
  \/ SyncMarkItem /\ UNCHANGED restVars
  \/ SyncBatchDone /\ UNCHANGED restVars
  \/ QuietPullOk /\ UNCHANGED restVars
  \/ SyncPullFailed /\ UNCHANGED restVars
  \/ SyncPageDone /\ UNCHANGED restVars

SpecPending == Init /\ [][PendingNext]_vars

\* --------------------------------------------------- the engine's auto-sync
\* startAutoSync: the old timer is stopped, the interval set, then the initial sync
startAutoSync ==
  /\ autoSyncTimer' = TRUE
  /\ sync(isOnline, DefaultEntities, BATCH_SIZE)
  /\ UNCHANGED <<now, isOnline, db, syncQueue, conflicts, syncInProgress, drain, calls,
                 pushes, nextVal, enqOrder, attempts, sent, ticks>>

\* stopAutoSync with a timer set
stopAutoSync ==
  /\ autoSyncTimer
  /\ autoSyncTimer' = FALSE
  /\ UNCHANGED <<now, isOnline, storeVars, engineSyncInProgress, abortController,
                 syncState, lastSyncTs, sy, activeSyncs, skipped, syncCalls,
                 pendingJobs, ticks>>

\* an interval callback that calls sync() whatever the connection and the lock are
MutTimerFired ==
  /\ autoSyncTimer /\ ticks < MaxTicks
  /\ ticks' = ticks + 1
  /\ sync(isOnline, DefaultEntities, BATCH_SIZE)
  /\ UNCHANGED <<now, isOnline, db, syncQueue, conflicts, syncInProgress, drain, calls,
                 pushes, nextVal, enqOrder, attempts, sent, autoSyncTimer>>

\* the interval callback of startAutoSync
autoSyncTimerFired ==
  /\ autoSyncTimer /\ ticks < MaxTicks
  /\ ticks' = ticks + 1
  /\ IF isOnline /\ ~engineSyncInProgress
     THEN sync(isOnline, DefaultEntities, BATCH_SIZE)
     ELSE UNCHANGED <<engineSyncInProgress, abortController, syncState, lastSyncTs, sy,
                      activeSyncs, cache, skipped, syncCalls, pendingJobs>>
  /\ UNCHANGED <<now, isOnline, db, syncQueue, conflicts, syncInProgress, drain, calls,
                 pushes, nextVal, enqOrder, attempts, sent, autoSyncTimer>>

AutoNext ==
  \/ startAutoSync /\ UNCHANGED restVars
  \/ stopAutoSync /\ UNCHANGED restVars
  \/ autoSyncTimerFired /\ UNCHANGED restVars
  \/ EngineGoOnline /\ UNCHANGED restVars
  \/ GoOffline /\ UNCHANGED <<engineVars, restVars>>
  \/ DrainFinished /\ UNCHANGED envVars
  \/ cancelSync /\ UNCHANGED restVars
  \/ SyncAborted /\ UNCHANGED restVars
  \/ SyncDetected /\ UNCHANGED restVars
  \/ QuietPullOk /\ UNCHANGED restVars
  \/ SyncPullFailed /\ UNCHANGED restVars
  \/ SyncPageDone /\ UNCHANGED restVars

SpecAuto == Init /\ [][AutoNext]_vars

\* ------------------------------------------------ the store's transactions
\* the records a transaction body may write, and how the body may end: a plain
\* return, a synchronous throw, or a promise that resolves or rejects
TxIds == {"r1", "r2"}
TxWrites(storeNames) ==
  SUBSET {[store |-> n, id |-> i] : n \in storeNames, i \in TxIds} \ {{}}
TxEnds == {"returns", "throws", "resolves", "rejects"}
TxBodies(storeNames) == [writes : TxWrites(storeNames), end : TxEnds]

\* the object the body puts under an id
TxItem(id) == NewItem(id, [val |-> 0, synced |-> FALSE])

\* the entity stores after the transaction's requests were committed
committed(t) ==
  [s \in Entities |-> [i \in StoreIds |->
     IF [store |-> s, id |-> i] \in t.writes THEN TxItem(i) ELSE db[s][i]]]

\* new Promise(...): the transaction is created and the callback is run; a throw
\* aborts the transaction and rejects, a returned promise gets reject as its catch
openTransaction(storeNames, body) ==
  /\ tx.pc \in {"none", "complete", "aborted"}
  /\ tx' = IF body.end = "throws"
           THEN [pc |-> "aborted", stores |-> storeNames, writes |-> body.writes,
                 end |-> body.end, settled |-> TRUE, promise |-> "rejected"]
           ELSE [pc |-> "active", stores |-> storeNames, writes |-> body.writes,
                 end |-> body.end, settled |-> body.end = "returns",
                 promise |-> "pending"]
  /\ UNCHANGED <<now, isOnline, storeVars, engineVars, resolverVars, printJobs, delays, remoteLog,
                 listeners,                 notified>>

executeTransaction(storeName, body) == openTransaction({storeName}, body)

executeMultiStoreTransaction(storeNames, body) == openTransaction(storeNames, body)

\* the promise the callback returned settles: result.catch(reject)
BodySettled ==
  /\ ~tx.settled
  /\ tx' = [tx EXCEPT !.settled = TRUE,
                      !.promise = IF tx.end = "rejects" /\ @ = "pending"
                                  THEN "rejected" ELSE @]
  /\ UNCHANGED <<now, isOnline, storeVars, engineVars, resolverVars, printJobs, delays, remoteLog,
                 listeners,                 notified>>

\* the transaction commits: its writes are stored, oncomplete resolves
TxCompleted ==
  /\ tx.pc = "active"
  /\ db' = committed(tx)
  /\ tx' = [tx EXCEPT !.pc = "complete",
                      !.promise = IF @ = "pending" THEN "resolved" ELSE @]
  /\ UNCHANGED <<now, isOnline, cache, syncQueue, conflicts, syncInProgress, drain,
                 calls, pushes, nextVal, enqOrder, attempts, sent,
                 engineVars, resolverVars, printJobs, delays, remoteLog, listeners, notified>>

\* a request of the transaction fails: the transaction aborts, onabort rejects
TxFailed ==
  /\ tx.pc = "active"
  /\ tx' = [tx EXCEPT !.pc = "aborted",
                      !.promise = IF @ = "pending" THEN "rejected" ELSE @]
  /\ UNCHANGED <<now, isOnline, storeVars, engineVars, resolverVars, printJobs, delays, remoteLog,
                 listeners,                 notified>>

TxNext ==
  \/ \E n \in Entities : \E body \in TxBodies({n}) : executeTransaction(n, body)
  \/ \E body \in TxBodies(Entities) : executeMultiStoreTransaction(Entities, body)
  \/ BodySettled
  \/ TxCompleted
  \/ TxFailed

SpecTx == Init /\ [][TxNext]_vars

\* ----------------------------------------------------- change notification
\* subscribers, and what a subscriber's callback does when it is called: returns,
\* throws, or calls its own unsubscribe function and returns
SubIds == {"s1", "s2", "s3"}
SubKinds == {"ok", "throws", "unsubscribes"}
Targets == {"store", "engine"}

\* the ids in a callback set
Subscribed(set) == {set[k].id : k \in DOMAIN set}

\* callbacks.forEach((cb) => cb(data)) from position k on: a throw leaves the loop,
\* a callback that deleted itself is gone from the set and the loop goes on
RECURSIVE forEachCallback(_, _, _)
forEachCallback(set, k, got) ==
  IF k > Len(set) THEN [set |-> set, got |-> got, result |-> "returned"]
  ELSE LET cb == set[k] IN
       IF cb.kind = "throws"
       THEN [set |-> set, got |-> got \cup {cb.id}, result |-> "threw"]
       ELSE IF cb.kind = "unsubscribes"
       THEN forEachCallback(SelectSeq(set, LAMBDA c : c.id # cb.id), k,
                            got \cup {cb.id})
       ELSE forEachCallback(set, k + 1, got \cup {cb.id})

\* subscribe(store, callback) and SyncEngine.subscribe(callback)
subscribe(target, id, kind) ==
  /\ id \notin Subscribed(listeners[target])
  /\ Len(listeners[target]) < MaxSubs
  /\ listeners' = [listeners EXCEPT ![target] = Append(@, [id |-> id, kind |-> kind])]
  /\ UNCHANGED <<now, isOnline, storeVars, engineVars, resolverVars, printJobs, delays, remoteLog,
                 tx, notified>>

\* the function subscribe returned is called
unsubscribe(target, id) ==
  /\ id \in Subscribed(listeners[target])
  /\ listeners' = [listeners EXCEPT ![target] = SelectSeq(@, LAMBDA c : c.id # id)]
  /\ UNCHANGED <<now, isOnline, storeVars, engineVars, resolverVars, printJobs, delays, remoteLog,
                 tx, notified>>

\* notifyListeners at the end of put / delete, and in updateSyncState
notifyAll(target) ==
  LET out == forEachCallback(listeners[target], 1, {}) IN
  /\ listeners[target] # <<>>
  /\ listeners' = [listeners EXCEPT ![target] = out.set]
  /\ notified' = [by |-> target, got |-> out.got, result |-> out.result]
  /\ UNCHANGED <<now, isOnline, storeVars, engineVars, resolverVars, printJobs, delays, remoteLog,
                 tx>>

NotifyNext ==
  \/ \E t \in Targets, i \in SubIds, k \in SubKinds : subscribe(t, i, k)
  \/ \E t \in Targets, i \in SubIds : unsubscribe(t, i)
  \/ \E t \in Targets : notifyAll(t)

SpecNotify == Init /\ [][NotifyNext]_vars

\* --------------------------------------------------- deletions and the push
\* records are written and deleted, online and offline, and sync cycles run against
\* a server without changes of its own
DeletesNext ==
  \/ \E s \in AppStores, i \in RecIds :
       /\ nextVal <= MaxSyncWrites /\ syncCalls = 0
       /\ AppPut(s, i) /\ UNCHANGED envVars
  \/ \E c \in Callers : PutCommitted(c) /\ UNCHANGED envVars
  \/ \E c \in Callers : PutQueued(c) /\ UNCHANGED envVars
  \/ \E s \in AppStores, i \in RecIds : DeleteBegin("app", s, i) /\ UNCHANGED envVars
  \/ \E c \in Callers : DeleteCommitted(c) /\ UNCHANGED envVars
  \/ \E c \in Callers : DeleteQueued(c) /\ UNCHANGED envVars
  \/ \E p \in BagToSet(pushes) : SyncItemResolved(p) /\ UNCHANGED envVars
  \/ DrainApplied /\ UNCHANGED envVars
  \/ DrainFinished /\ UNCHANGED envVars
  \/ EngineGoOnline /\ UNCHANGED restVars
  \/ GoOffline /\ UNCHANGED <<engineVars, restVars>>
  \/ ManualSync(<<"orders">>) /\ UNCHANGED restVars
  \/ SyncDetected /\ UNCHANGED restVars
  \/ SyncUploadOk /\ UNCHANGED restVars
  \/ SyncUploadFailed /\ UNCHANGED restVars
  \/ SyncMarkItem /\ UNCHANGED restVars
  \/ SyncBatchDone /\ UNCHANGED restVars
  \/ QuietPullOk /\ UNCHANGED restVars
  \/ SyncPullFailed /\ UNCHANGED restVars
  \/ SyncPageDone /\ UNCHANGED restVars

SpecDeletes == Init /\ [][DeletesNext]_vars

\* ------------------------------------------------- change detection and time
\* one record is written, online or offline, while the clock advances and sync
\* cycles run against a server without changes of its own
DetectNext ==
  \/ \E s \in AppStores, i \in RecIds :
       /\ nextVal <= MaxSyncWrites
       /\ AppPut(s, i) /\ UNCHANGED envVars
  \/ \E c \in Callers : PutCommitted(c) /\ UNCHANGED envVars
  \/ \E c \in Callers : PutQueued(c) /\ UNCHANGED envVars
  \/ \E p \in BagToSet(pushes) : SyncItemResolved(p) /\ UNCHANGED envVars
  \/ DrainApplied /\ UNCHANGED envVars
  \/ DrainFinished /\ UNCHANGED envVars
  \/ EngineGoOnline /\ UNCHANGED restVars
  \/ GoOffline /\ UNCHANGED <<engineVars, restVars>>
  \/ Tick /\ UNCHANGED <<engineVars, restVars>>
  \/ ManualSync(<<"orders">>) /\ UNCHANGED restVars
  \/ SyncDetected /\ UNCHANGED restVars
  \/ SyncUploadOk /\ UNCHANGED restVars
  \/ SyncUploadFailed /\ UNCHANGED restVars
  \/ SyncMarkItem /\ UNCHANGED restVars
  \/ SyncBatchDone /\ UNCHANGED restVars
  \/ QuietPullOk /\ UNCHANGED restVars
  \/ SyncPullFailed /\ UNCHANGED restVars
  \/ SyncPageDone /\ UNCHANGED restVars

SpecDetect == Init /\ [][DetectNext]_vars

\* -------------------------------------------------------------- the cache
\* get, put and delete of the application on one record, from two places at once
CacheNext ==
  \/ \E c \in AppCallers, s \in AppStores, i \in RecIds :
       AppPutBy(c, s, i) /\ UNCHANGED envVars
  \/ \E c \in Callers : PutCommitted(c) /\ UNCHANGED envVars
  \/ \E c \in Callers : PutQueued(c) /\ UNCHANGED envVars
  \/ \E c \in AppCallers, s \in AppStores, i \in RecIds :
       DeleteBegin(c, s, i) /\ UNCHANGED envVars
  \/ \E c \in Callers : DeleteCommitted(c) /\ UNCHANGED envVars
  \/ \E c \in Callers : DeleteQueued(c) /\ UNCHANGED envVars
  \/ \E c \in AppCallers, s \in AppStores, i \in RecIds :
       GetBegin(c, s, i) /\ UNCHANGED envVars
  \/ \E c \in Callers : GetDone(c) /\ UNCHANGED envVars
  \/ \E p \in BagToSet(pushes) : SyncItemResolved(p) /\ UNCHANGED envVars
  \/ \E s \in Entities, i \in RecIds : CacheExpire(s, i) /\ UNCHANGED envVars
  \/ Tick /\ UNCHANGED <<engineVars, restVars>>

SpecCache == Init /\ [][CacheNext]_vars

\* ------------------------------------------------------------ outbox drain
\* the drain with its triggers, and with storage failures inside the drain
DrainNext ==
  \/ \E s \in AppStores, i \in RecIds : AppPut(s, i) /\ UNCHANGED envVars
  \/ \E c \in Callers : PutCommitted(c) /\ UNCHANGED envVars
  \/ \E c \in Callers : PutQueued(c) /\ UNCHANGED envVars
  \/ DrainApplied /\ UNCHANGED envVars
  \/ \E error \in Errors : DrainFailed(error) /\ UNCHANGED envVars
  \/ DrainDeadLettered /\ UNCHANGED envVars
  \/ DrainFinished /\ UNCHANGED envVars
  \/ DrainAborted /\ UNCHANGED envVars
  \/ BackgroundSweep /\ UNCHANGED envVars
  \/ GoOnline /\ UNCHANGED <<engineVars, restVars>>
  \/ GoOffline /\ UNCHANGED <<engineVars, restVars>>

SpecDrain == Init /\ [][DrainNext]_vars

\* ---------------------------------------------------------------- print jobs
\* this.db.transaction(store, mode) finds an object store of that name: the
\* database has the stores of STORES and no other
hasObjectStore(store) == store \in STORES

\* the priorities a caller passes enqueue (5 when it passes none)
Priorities == {1, 2, 5}

\* enqueue(destination, type, data, priority) up to its await: the job is built
\* and offlineStore.put('printJobs', job.id, job) is called
enqueue(priority) ==
  /\ Len(printJobs) < MaxPrintJobs
  /\ printJobs' = Append(printJobs,
       [id |-> Len(printJobs) + 1, priority |-> priority, status |-> "pending",
        retryCount |-> 0, maxRetries |-> maxRetries, createdAt |-> now,
        pc |-> "persist", cancel |-> "none"])
  /\ UNCHANGED <<now, isOnline, storeVars, engineVars, resolverVars, tx, listeners,
                 notified, delays, remoteLog>>

\* put's executeTransaction creates its transaction inside the promise it returns:
\* for a name without an object store transaction() throws, the promise rejects,
\* put rejects at its await and so does enqueue, before queue.insert(job) and
\* processQueue(printer.address)
enqueueRejected(j) ==
  /\ j \in DOMAIN printJobs
  /\ printJobs[j].pc = "persist"
  /\ ~hasObjectStore("printJobs")
  /\ printJobs' = [printJobs EXCEPT ![j].pc = "threw"]
  /\ UNCHANGED <<now, isOnline, storeVars, engineVars, resolverVars, tx, listeners,
                 notified, delays, remoteLog>>

noPrintVars == <<engineVars, resolverVars, tx, listeners, notified>>

PrintNext ==
  \/ \E p \in Priorities : enqueue(p)
  \/ \E j \in 1..MaxPrintJobs : enqueueRejected(j)
  \/ Tick /\ UNCHANGED <<noPrintVars, printJobs, delays, remoteLog>>

SpecPrint == Init /\ [][PrintNext]_vars

\* cancelJob(jobId) up to its await: getJob calls offlineStore.get('printJobs', id)
cancelJob(j) ==
  /\ j \in DOMAIN printJobs
  /\ printJobs[j].cancel = "none"
  /\ printJobs' = [printJobs EXCEPT ![j].cancel = "getJob"]
  /\ UNCHANGED <<now, isOnline, storeVars, engineVars, resolverVars, tx, listeners,
                 notified, delays, remoteLog>>

\* get finds nothing cached for 'printJobs' (no put on it ever reached updateCache)
\* and getFromDB's transaction() throws: getJob rejects and so does cancelJob,
\* before the queue is rebuilt and before job.status = 'failed'
cancelRejected(j) ==
  /\ j \in DOMAIN printJobs
  /\ printJobs[j].cancel = "getJob"
  /\ ~hasObjectStore("printJobs")
  /\ printJobs' = [printJobs EXCEPT ![j].cancel = "threw"]
  /\ UNCHANGED <<now, isOnline, storeVars, engineVars, resolverVars, tx, listeners,
                 notified, delays, remoteLog>>

CancelNext ==
  \/ \E p \in Priorities : enqueue(p)
  \/ \E j \in 1..MaxPrintJobs : enqueueRejected(j)
  \/ \E j \in 1..MaxPrintJobs : cancelJob(j)
  \/ \E j \in 1..MaxPrintJobs : cancelRejected(j)
  \/ Tick /\ UNCHANGED <<noPrintVars, printJobs, delays, remoteLog>>

SpecCancel == Init /\ [][CancelNext]_vars

\* every call of enqueue that is waiting for put is resumed
SpecPrintFair == SpecPrint /\ WF_vars(\E j \in 1..MaxPrintJobs : enqueueRejected(j))

\* ------------------------------------------------------------ retry backoff
\* Math.pow(base, exponent) for a whole exponent
RECURSIVE pow(_, _)
pow(base, exponent) == IF exponent = 0 THEN 1 ELSE base * pow(base, exponent - 1)

\* Math.min
min(a, b) == IF a < b THEN a ELSE b

\* the retryCount values the delay is computed for: those a queued operation can
\* have, and larger ones
RetryCounts == 0..MaxDelayN

MutBackoffDelay(retryCount) == INITIAL_RETRY_DELAY * pow(2, retryCount)

\* executeQueuedOperation's delay for an operation, in milliseconds
backoffDelay(retryCount) ==
  min(INITIAL_RETRY_DELAY * pow(2, retryCount), MAX_RETRY_DELAY)

\* executeQueuedOperation(op) up to its await: the delay is computed from
\* op.retryCount and the timer is set
executeQueuedOperation(retryCount) ==
  /\ \A d \in delays : d.retryCount # retryCount
  /\ delays' = delays \cup {[retryCount |-> retryCount,
                             delay |-> backoffDelay(retryCount)]}
  /\ UNCHANGED <<now, isOnline, storeVars, engineVars, resolverVars, tx, listeners,
                 notified, printJobs, remoteLog>>

DelayNext == \E n \in RetryCounts : executeQueuedOperation(n)

SpecDelay == Init /\ [][DelayNext]_vars

\* ---------------------------- the engine against a remote that receives changes
\* the records another device may change on the remote
RemoteIds == {"r1", "r2"}

\* a change of another device reaches the remote, which stamps it with its clock
RemoteChange(id) ==
  /\ Len(remoteLog) < MaxRemoteChanges
  /\ \A k \in DOMAIN remoteLog : remoteLog[k].id # id
  /\ remoteLog' = Append(remoteLog, [id |-> id, val |-> 0, updatedAt |-> now,
                                vectorClock |-> <<>>])
  /\ UNCHANGED <<now, isOnline, storeVars, engineVars, resolverVars, tx, listeners,
                 notified, printJobs, delays>>

\* GET /orders/changes?since=<timestamp>&limit=<number> answered from the log
remoteChanges(since, limit) ==
  LET newer == SelectSeq(remoteLog, LAMBDA d : d.updatedAt > since) IN
  [items |-> SubSeq(newer, 1, IF Len(newer) < limit THEN Len(newer) ELSE limit),
   hasMore |-> Len(newer) > limit]

\* pullRemoteChanges: the GET, with since read from localStorage, was answered
RemotePullOk ==
  /\ sy.pc = "pull" /\ Head(sy.entities) \in RemoteStores
  /\ SyncPullOk(remoteChanges(lastSyncTs[Head(sy.entities)], sy.batchSize))

RemoteNext ==
  \/ ManualSync(<<"orders">>) /\ UNCHANGED restVars
  \/ EngineGoOnline /\ UNCHANGED restVars
  \/ SyncDetected /\ UNCHANGED restVars
  \/ RemotePullOk /\ UNCHANGED restVars
  \/ SyncMergeItem /\ UNCHANGED restVars
  \/ PutCommitted("sync") /\ UNCHANGED envVars
  \/ \E p \in BagToSet(pushes) : SyncItemResolved(p) /\ UNCHANGED envVars
  \/ SyncPageDone /\ UNCHANGED restVars
  \/ \E id \in RemoteIds : RemoteChange(id)
  \/ Tick /\ UNCHANGED <<engineVars, restVars>>

SpecRemote == Init /\ [][RemoteNext]_vars

\* ------------------------------------------------- resolver specification
RInit ==
  /\ rArgs \in [store : ResolveStores, local : LocalItems, remote : RemoteItems]
  /\ rCmp = Nil
  /\ rOut = Nil
  /\ rSeen = {}
  /\ rCalls = 0
  /\ StoreInit
  /\ EngineInit
  /\ SideInit

\* a caller compares the two clocks, in both orders
RCompare ==
  /\ rCmp = Nil
  /\ rCmp' = [ab |-> compareVectorClocks(rArgs.local.vectorClock, rArgs.remote.vectorClock),
              ba |-> compareVectorClocks(rArgs.remote.vectorClock, rArgs.local.vectorClock)]
  /\ UNCHANGED <<rArgs, rOut, rSeen, rCalls, isOnline, now, storeVars, engineVars, sideVars>>

\* a caller resolves the triple (again)
RResolve ==
  /\ rCalls < MaxCalls
  /\ rOut' = resolveConflict(rArgs.store, rArgs.local, rArgs.remote)
  /\ rSeen' = rSeen \cup {rOut'.item}
  /\ rCalls' = rCalls + 1
  /\ UNCHANGED <<rArgs, rCmp, isOnline, now, storeVars, engineVars, sideVars>>

\* store state changes between calls: connectivity and the wall clock
RToggleOnline ==
  /\ isOnline' = ~isOnline
  /\ UNCHANGED <<resolverVars, now, storeVars, engineVars, sideVars>>

RTick ==
  /\ now <= MaxStamp
  /\ now' = now + 1
  /\ UNCHANGED <<resolverVars, isOnline, storeVars, engineVars, sideVars>>

RNext == RCompare \/ RResolve \/ RToggleOnline \/ RTick

SpecResolver == RInit /\ [][RNext]_vars

\* ------------------------------------------------- vector-clock properties
\* a device's counter in a clock, a missing one read as 0
Counter(clock, d) == IF d \in DOMAIN clock THEN clock[d] ELSE 0

\* a is >= b on every device and strictly greater on at least one
Dominates(a, b) ==
  /\ \A d \in Devices : Counter(a, d) >= Counter(b, d)
  /\ \E d \in Devices : Counter(a, d) > Counter(b, d)

\* C7: compareVectorClocks(a, b) returns Ahead (1) exactly when a dominates b,
\* Behind (-1) exactly when b dominates a, and Concurrent (0) in every other case,
\* equal clocks included; a missing counter reads as 0.
CompareCharacterised ==
  rCmp # Nil =>
    LET a == rArgs.local.vectorClock
        b == rArgs.remote.vectorClock
    IN /\ rCmp.ab \in {-1, 0, 1}
       /\ (rCmp.ab = 1) <=> Dominates(a, b)
       /\ (rCmp.ab = -1) <=> Dominates(b, a)
       /\ (rCmp.ab = 0) <=> (~Dominates(a, b) /\ ~Dominates(b, a))
       /\ (\A d \in Devices : Counter(a, d) = Counter(b, d)) => rCmp.ab = 0

\* a clock that lacks a device the other one counts was found Ahead of it
WitnessCompareMissing ==
  /\ rCmp # Nil
  /\ rCmp.ab = 1
  /\ ServerDevice \notin DOMAIN rArgs.local.vectorClock
  /\ ServerDevice \in DOMAIN rArgs.remote.vectorClock

\* C8: compareVectorClocks(A, B) and compareVectorClocks(B, A) are inverses: one is
\* Ahead iff the other is Behind, and one is Concurrent iff the other is.
CompareInverse ==
  rCmp # Nil =>
    /\ (rCmp.ab = 1) <=> (rCmp.ba = -1)
    /\ (rCmp.ab = -1) <=> (rCmp.ba = 1)
    /\ (rCmp.ab = 0) <=> (rCmp.ba = 0)

\* a pair compared Behind one way and Ahead the other, the clocks on different devices
WitnessCompareInverse ==
  /\ rCmp # Nil
  /\ rCmp.ab = -1
  /\ rCmp.ba = 1
  /\ DOMAIN rArgs.local.vectorClock # DOMAIN rArgs.remote.vectorClock

\* ------------------------------------------------------ resolver properties
\* C9: resolveConflict returns the local record unchanged when the local clock is
\* Ahead, the remote record unchanged when it is Behind, for every collection, and
\* consults the merge policy only when the clocks are Concurrent.
ResolveByClock ==
  rOut # Nil =>
    LET a == rArgs.local.vectorClock
        b == rArgs.remote.vectorClock
    IN /\ Dominates(a, b) => (rOut.item = rArgs.local /\ ~rOut.merged)
       /\ Dominates(b, a) => (rOut.item = rArgs.remote /\ ~rOut.merged)
       /\ rOut.merged => (~Dominates(a, b) /\ ~Dominates(b, a))

\* local won on its clock in a collection whose merge policy prefers the remote
WitnessResolveAhead ==
  /\ rOut # Nil
  /\ rArgs.store = "inventory"
  /\ Dominates(rArgs.local.vectorClock, rArgs.remote.vectorClock)
  /\ rOut.item = rArgs.local

\* C10: for a given (collection, local, remote), resolveConflict yields the same
\* record at every call, whatever was called before and whatever the store's state
\* (connectivity, wall clock) is at the call.
ResolveDeterministic ==
  Cardinality(rSeen) <= 1

\* the same concurrent pair of a collection without a policy of its own was resolved
\* twice, by timestamps, with the clock advanced and connectivity changed in between
WitnessResolveTwice ==
  /\ rCalls = MaxCalls
  /\ rOut # Nil
  /\ rOut.merged
  /\ rArgs.store = "other"
  /\ now > 1
  /\ ~isOnline


\* ------------------------------------------------------ outbox properties
\* the queue q holds a put of payload v
QueuedIn(q, v) ==
  \E o \in OpIds : /\ q[o] # Nil
                   /\ q[o].operation = "put"
                   /\ q[o].data.data.val = v

\* the remote has received payload v, on whichever path
ConfirmedIn(snt, v) ==
  snt[v].optimistic > 0 \/ snt[v].drain > 0 \/ snt[v].push > 0

\* C2: at the moment a put returns, the write has been confirmed by the remote or
\* a sync-queue entry for it exists, whether the device was offline at the write or
\* the optimistic push of the write fails.
NoWriteLost ==
  [][\A c \in Callers :
       (calls[c].op = "put" /\ calls[c].pc # "idle" /\ calls'[c].pc = "idle"
          /\ calls[c].data.val \in Vals)
       => (QueuedIn(syncQueue', calls[c].data.val)
             \/ ConfirmedIn(sent', calls[c].data.val))]_vars

\* the position of an operation in the order of enqueueing
EnqPos(o) == CHOOSE k \in DOMAIN enqOrder : enqOrder[k] = o

\* C4: queued operations are processed in enqueue order per collection: a drain
\* never attempts the remote apply of an entry while an entry of the same
\* collection that was enqueued before it is still to be visited by that drain.
OutboxFifo ==
  [][\A o \in OpIds :
       attempts'[o].tried > attempts[o].tried
       => ~\E k \in 2..Len(drain.ops) :
             /\ drain.ops[k].store = Head(drain.ops).store
             /\ EnqPos(drain.ops[k].id) < EnqPos(o)]_vars

\* C5: an entry leaves the sync queue only in the step that acknowledges its remote
\* apply, or after MAX_RETRY_ATTEMPTS failed attempts, when the dead-letter store
\* ('conflicts') holds it; no other step removes a queued entry.
OutboxLeaves ==
  [][\A o \in OpIds :
       (syncQueue[o] # Nil /\ syncQueue'[o] = Nil)
       => \/ attempts'[o].acked = attempts[o].acked + 1
          \/ /\ conflicts[o] # Nil
             /\ conflicts'[o] # Nil
             /\ conflicts[o].op.retryCount >= MAX_RETRY_ATTEMPTS
             /\ attempts[o].tried - attempts[o].acked >= MAX_RETRY_ATTEMPTS]_vars

\* one entry has left the queue acknowledged and another one dead-lettered
WitnessOutboxLeaves ==
  \E o1, o2 \in OpIds :
    /\ syncQueue[o1] = Nil /\ attempts[o1].acked = 1
    /\ syncQueue[o2] = Nil /\ conflicts[o2] # Nil /\ attempts[o2].acked = 0

\* C6: an entry whose remote application always fails is attempted exactly
\* MAX_RETRY_ATTEMPTS times across drains; from the 5th failure on it is in the
\* dead-letter store with the last error, it is out of the sync queue once the
\* failure handler has returned, and it is never attempted again.
RetryBound ==
  \A o \in OpIds :
    /\ attempts[o].tried <= MAX_RETRY_ATTEMPTS
    /\ (attempts[o].acked = 0 /\ attempts[o].tried = MAX_RETRY_ATTEMPTS) => conflicts[o] # Nil
    /\ conflicts[o] # Nil =>
         /\ attempts[o].tried = MAX_RETRY_ATTEMPTS
         /\ attempts[o].acked = 0
         /\ conflicts[o].op.retryCount = MAX_RETRY_ATTEMPTS
         /\ conflicts[o].error = attempts[o].lastError
         /\ syncQueue[o] # Nil => (drain.pc = "deadLetter" /\ Head(drain.ops).id = o)
    /\ (syncQueue[o] # Nil /\ attempts[o].acked = 0) =>
         /\ syncQueue[o].retryCount = IF conflicts[o] # Nil THEN MAX_RETRY_ATTEMPTS - 1
                                      ELSE attempts[o].tried
         /\ syncQueue[o].retryCount < MAX_RETRY_ATTEMPTS

\* an entry failed five times over five drains, the last time with 'rejected'; it is
\* dead-lettered with that message and out of the queue, the drain's loop at its end
WitnessRetryBound ==
  \E o \in OpIds :
    /\ conflicts[o] # Nil
    /\ syncQueue[o] = Nil
    /\ attempts[o].tried = MAX_RETRY_ATTEMPTS
    /\ conflicts[o].error = "rejected"
    /\ drain.pc = "exec"
    /\ drain.ops = <<>>


\* ------------------------------------------------- sync engine properties
\* C1: at most one sync cycle is active at any time: a call of sync() made while
\* another one is in progress starts nothing; it leaves the request in flight, the
\* cycle's position and every collection's sync state as they are.
SingleFlight ==
  [][/\ activeSyncs' <= 1
     /\ (engineSyncInProgress /\ syncCalls' # syncCalls)
        => UNCHANGED <<engineSyncInProgress, abortController, syncState, lastSyncTs,
                       sy, activeSyncs>>]_vars

\* a call was turned away at the guard, and the cycle it found in progress still
\* waits for the answer to its request
WitnessSingleFlight ==
  /\ skipped
  /\ engineSyncInProgress
  /\ activeSyncs = 1
  /\ sy.pc \in {"upload", "pull"}
  /\ abortController = "live"

\* C3: each local write is sent to the remote at most once: the drain of the sync
\* queue (processQueuedWrites) and the push phase of a sync cycle
\* (pushLocalChanges) together deliver a payload only once.
NoDuplicateDelivery ==
  \A v \in Vals : sent[v].drain + sent[v].push <= 1


\* ------------------------------------------------ merge policy properties
\* the last resolveConflict call found the clocks Concurrent, for the given collection
MergedFor(store) == rOut # Nil /\ rOut.merged /\ rArgs.store = store

\* C11: for 'inventory' with Concurrent clocks the resolved record is a merge of the
\* two: the remote baseline with the local decrements applied, not a plain overwrite
\* by the local or by the remote record.
InventoryNumericMerge ==
  MergedFor("inventory") =>
    /\ rOut.item # rArgs.remote
    /\ rOut.item # rArgs.local
    /\ rOut.item.data # rArgs.remote.data
    /\ rOut.item.data # rArgs.local.data

\* C13: with Concurrent clocks resolveConflict returns the remote record for
\* 'products', and for a collection without a policy of its own the record with
\* the later timestamp, whichever side holds it.
CatalogAndFallback ==
  /\ MergedFor("products") => rOut.item = rArgs.remote
  /\ MergedFor("other") =>
       /\ rArgs.local.timestamp > rArgs.remote.timestamp => rOut.item = rArgs.local
       /\ rArgs.remote.timestamp > rArgs.local.timestamp => rOut.item = rArgs.remote

\* the fallback gave the local record, the later one, of a Concurrent pair
WitnessFallbackLocal ==
  /\ MergedFor("other")
  /\ rArgs.local.timestamp > rArgs.remote.timestamp
  /\ rOut.item = rArgs.local
  /\ rArgs.local.vectorClock # rArgs.remote.vectorClock


\* this step is mergeRemoteItem's put for the next remote record of the page
MergeStep == sy.pc = "merge" /\ sy.items # <<>> /\ sy'.items = Tail(sy.items)

\* what get returns for the record the next remote record of the page is about
MergeLocal == getItem(cache, Head(sy.entities), Head(sy.items).id)

\* the next remote record meets a pending local record with a Concurrent clock
MergeConcurrent ==
  /\ MergeLocal # Nil
  /\ MergeLocal.syncStatus = "pending"
  /\ ~Dominates(MergeLocal.vectorClock, Head(sy.items).vectorClock)
  /\ ~Dominates(Head(sy.items).vectorClock, MergeLocal.vectorClock)

\* C12: for the append-only collection 'orders' with Concurrent clocks the merge
\* keeps both versions: after it the collection holds the local and the remote
\* payload under distinct ids.
OrdersKeepBoth ==
  [][(MergeStep /\ Head(sy.entities) = "orders" /\ MergeConcurrent)
       => \E i1, i2 \in StoreIds :
            /\ i1 # i2
            /\ db'["orders"][i1] # Nil
            /\ db'["orders"][i2] # Nil
            /\ db'["orders"][i1].data.val = MergeLocal.data.val
            /\ db'["orders"][i2].data.val = Head(sy.items).val]_vars


\* ------------------------------------------------------- store properties
\* what get(store, id) returns with the given cache and object stores
Got(c, d, store, id) == IF c[store][id] # Nil THEN c[store][id] ELSE d[store][id]

\* this step is the return of the put that caller c has in progress
PutReturns(c) == calls[c].op = "put" /\ calls[c].pc # "idle" /\ calls'[c].pc = "idle"

\* get after the put of caller c returned gives the payload put, pending if the
\* device was offline when put was called
RoundTripAtReturn ==
  \A c \in Callers :
    PutReturns(c) =>
      LET it == Got(cache', db', calls[c].store, calls[c].id) IN
      /\ it # Nil
      /\ it.data = calls[c].data
      /\ ~calls[c].online => it.syncStatus = "pending"

\* when the optimistic push of a put fails, the record it wrote is not synced
RoundTripAtRejection ==
  \A p \in BagToSet(pushes) :
    (pushes' = pushes (-) SetToBag({p}) /\ enqOrder' # enqOrder) =>
      LET it == Got(cache', db', p.store, p.id) IN
      (it # Nil /\ it.data = p.data) => it.syncStatus # "synced"

\* C14: after put(c, id, v) completes, get(c, id) returns a record with payload v,
\* with syncStatus pending if the device was offline at write time, and synced
\* only if the optimistic push succeeded: not synced when that push failed.
RoundTrip ==
  [][RoundTripAtReturn /\ RoundTripAtRejection]_vars


\* C15: every delete(collection, id) removes the local record, invalidates the
\* cache entry and adds a delete entry for (collection, id) to the sync queue,
\* whether the device is online or offline: once delete is past its cache step,
\* the record and the cached item are gone and the queue holds the entry.
DeleteAlwaysQueued ==
  [][\A c \in Callers :
       (calls[c].pc = "delCommit" /\ calls'[c].pc # "delCommit")
       => /\ db'[calls[c].store][calls[c].id] = Nil
          /\ cache'[calls[c].store][calls[c].id] = Nil
          /\ \E o \in OpIds :
               /\ syncQueue'[o] # Nil
               /\ syncQueue'[o].operation = "delete"
               /\ syncQueue'[o].store = calls[c].store
               /\ syncQueue'[o].data.id = calls[c].id]_vars


\* C16: for every record, the local device's own counter in vectorClock, and the
\* record's version, are strictly greater after each put of that record than
\* before it, puts issued by the sync engine included.
ClockIncrements ==
  [][\A s \in Entities, i \in StoreIds :
       (db[s][i] # Nil /\ db'[s][i] # Nil /\ db'[s][i] # db[s][i])
       => /\ Counter(db'[s][i].vectorClock, LocalDevice)
               > Counter(db[s][i].vectorClock, LocalDevice)
          /\ db'[s][i].version > db[s][i].version]_vars


\* ------------------------------------------------ sync cycle properties
\* C17: each collection's sync status moves only along
\* idle -> syncing -> {success, error} -> idle: syncing is entered only from idle,
\* success and error only from syncing, and success and error are left only to idle.
StatusMachine ==
  [][\A e \in Entities :
       LET a == syncState[e].status
           b == syncState'[e].status
       IN a # b => \/ a = "idle" /\ b = "syncing"
                   \/ a = "syncing" /\ b \in {"success", "error"}
                   \/ a \in {"success", "error"} /\ b = "idle"]_vars

\* this step ends the sync() call in progress
SyncEnds == engineSyncInProgress /\ ~engineSyncInProgress'

\* C18: a failure in one collection's cycle does not abort the others: a sync()
\* call ends only in the cycle of the last collection it was asked for, every
\* collection before it having been through its own cycle, and that last one
\* ends in success or error.
EntitiesIsolated ==
  [][SyncEnds =>
       /\ Len(sy.entities) = 1
       /\ syncState'[Head(sy.entities)].status \in {"success", "error"}]_vars

\* the queue q holds an entry for record id of collection e
QueuedFor(q, e, id) ==
  \E o \in OpIds : q[o] # Nil /\ q[o].store = e /\ q[o].data.id = id

\* C19: after a batch upload succeeded, every record of the batch is synced and
\* has no entry left in the sync queue; after a batch upload failed, the records
\* and the queue are as they were.
BatchOutcome ==
  [][/\ (sy.pc = "mark" /\ sy'.pc # "mark")
          => \A k \in DOMAIN Head(sy.batches) :
               LET id == Head(sy.batches)[k] IN
               /\ db'[Head(sy.entities)][id] # Nil
               /\ db'[Head(sy.entities)][id].syncStatus = "synced"
               /\ ~QueuedFor(syncQueue', Head(sy.entities), id)
     /\ (sy.pc = "upload" /\ SyncEnds)
          => /\ UNCHANGED <<db, syncQueue>>
             /\ \A k \in DOMAIN sy.items :
                  QueuedFor(syncQueue, Head(sy.entities), sy.items[k].id)
                    => QueuedFor(syncQueue', Head(sy.entities), sy.items[k].id)]_vars

\* C20: after mergeRemoteItem has merged a remote item, the local record for its
\* id has syncStatus synced, whether no local record existed, a pending one did
\* (the resolver's result is written) or one that was not pending did.
MergedIsSynced ==
  [][MergeStep =>
       /\ db'[Head(sy.entities)][Head(sy.items).id] # Nil
       /\ db'[Head(sy.entities)][Head(sy.items).id].syncStatus = "synced"]_vars


\* ------------------------------------------------------ paginated pull
\* the number of pages of limit records the server holds for a request
PagesHeld(e, since, limit) ==
  LET n == Len(ChangedSince(e, since)) IN
  IF n = 0 THEN 1 ELSE (n + limit - 1) \div limit

\* C21: the pull phase fetches each page the server holds once and stops at the
\* first hasMore = false: it never sends more requests than the server holds pages,
\* and a collection whose cycle ended in success has progress 100 and every record
\* of the server present locally.
PagedPullCompletes ==
  /\ sy.pc \in {"pull", "merge"}
       => sy.pages <= PagesHeld(Head(sy.entities), lastSyncTs[Head(sy.entities)],
                                sy.batchSize)
  /\ \A e \in Entities :
       syncState[e].status = "success"
         => /\ syncState[e].progress = 100
            /\ \A k \in DOMAIN ServerLog(e) : db[e][ServerLog(e)[k].id] # Nil


\* C22: once cancelSync() was issued in a pull, no page is received any more: the
\* request the pull is at ends the call with the collection in error, 'Sync
\* cancelled'; and the records merged before stay in the local store.
CancelMidPull ==
  [][abortController = "aborted" =>
       /\ \A e \in Entities, i \in StoreIds : db[e][i] # Nil => db'[e][i] # Nil
       /\ (sy.pc = "pull" /\ sy' # sy)
            => /\ SyncEnds
               /\ syncState'[Head(sy.entities)].status = "error"
               /\ syncState'[Head(sy.entities)].lastError = "Sync cancelled"
               /\ db' = db]_vars

\* a call was cancelled after the first page of several had been merged: it has
\* ended in error at the request for the next page, the merged record is stored
WitnessCancelMidPull ==
  /\ ~engineSyncInProgress /\ syncCalls = 1
  /\ syncState["orders"].status = "error"
  /\ syncState["orders"].lastError = "Sync cancelled"
  /\ db["orders"]["r1"] # Nil /\ db["orders"]["r3"] = Nil


\* C23: the single-flight lock is released whenever a sync() call has ended, by
\* success, error or cancellation, and the next sync() issued online while no call
\* is running starts a cycle of its own with a fresh, unaborted signal.
LockReleased ==
  /\ [](activeSyncs = 0 => (~engineSyncInProgress /\ abortController = "null"))
  /\ [][(syncCalls' = syncCalls + 1 /\ activeSyncs = 0 /\ isOnline')
          => /\ engineSyncInProgress' /\ abortController' = "live"
             /\ sy'.pc = "detect"
             /\ syncState'[Head(sy'.entities)].status = "syncing"]_vars

\* the second call, issued after a cancelled one, has received a page and merges it
WitnessResumed ==
  /\ syncCalls = 2 /\ engineSyncInProgress /\ abortController = "live"
  /\ sy.pc = "merge" /\ Head(sy.entities) = "orders"
  /\ syncState["orders"].lastError = "Sync cancelled"


\* ------------------------------------------------- scenario: offline write
\* the entries the sync queue holds
QueuedOps == {o \in OpIds : syncQueue[o] # Nil}

\* the application's write was made offline and has returned, the pending count
\* it triggered is done, and the device has not been online since
OfflinePutSettled ==
  /\ nextVal = 2 /\ calls["app"].pc = "idle" /\ pendingJobs = <<>>
  /\ syncCalls = 0
  /\ db["orders"]["r1"] # Nil /\ db["orders"]["r1"].syncStatus = "pending"

\* after the offline put: exactly one queue entry, and itemsPending = 1
ScenarioOffline ==
  OfflinePutSettled
    => /\ Cardinality(QueuedOps) = 1
       /\ syncState["orders"].itemsPending = 1

\* a sync() call ends with the orders in success after the write was queued
ReconnectSyncDone ==
  /\ SyncEnds /\ enqOrder # <<>>
  /\ syncState'["orders"].status = "success"

\* that call has pushed the written record
ScenarioPushed == [][ReconnectSyncDone => sent'[1].push >= 1]_vars

\* C24: with the device offline, put('orders', id, data) leaves exactly one entry in
\* the sync queue and itemsPending = 1 for the orders; when the sync() call after
\* the reconnect has ended with the orders in success, the record has been pushed
\* and the sync queue is empty.
ScenarioA ==
  /\ []ScenarioOffline
  /\ [][ReconnectSyncDone
          => /\ sent'[1].push >= 1
             /\ \A o \in OpIds : syncQueue'[o] = Nil]_vars


\* ------------------------------------------------------------- auto-sync
\* C25: the interval fires only while auto-sync is started; a tick calls sync(),
\* which starts a cycle over the default collections, when the device is online and
\* no sync is in progress, and does nothing otherwise; every offline-to-online
\* transition calls sync() at once, timer or not, so that a sync is then running.
AutoSyncTriggers ==
  [][/\ ticks' # ticks
          => /\ autoSyncTimer
             /\ IF isOnline /\ ~engineSyncInProgress
                THEN /\ syncCalls' = syncCalls + 1
                     /\ engineSyncInProgress' /\ abortController' = "live"
                     /\ sy'.pc = "detect" /\ sy'.entities = DefaultEntities
                ELSE UNCHANGED <<syncCalls, skipped, engineSyncInProgress,
                                 abortController, syncState, sy>>
     /\ (~isOnline /\ isOnline')
          => /\ syncCalls' = syncCalls + 1
             /\ engineSyncInProgress']_vars

\* the interval has fired once while the initial sync was still running
WitnessTickSkipped ==
  /\ autoSyncTimer /\ ticks = 1 /\ syncCalls = 1 /\ engineSyncInProgress

\* the device came online with no timer set, and a sync is running
WitnessOnlineSync ==
  /\ ~autoSyncTimer /\ ticks = 0 /\ syncCalls = 1 /\ isOnline /\ engineSyncInProgress


\* ----------------------------------------------------------- transactions
\* C26: a transaction whose body fails, by a synchronous throw or by a rejected
\* promise, makes none of the body's writes visible: no step of such a
\* transaction changes a participating collection.
AllOrNothing ==
  [][tx'.end \in {"throws", "rejects"} => db' = db]_vars


\* ----------------------------------------------------------- notification
\* C27: a notification reaches every subscriber of the collection (or of the
\* sync-state map), whatever another subscriber's callback does, and returns
\* normally to the put, delete or state update that issued it.
NotifyIsolated ==
  [][notified' # notified
       => /\ notified'.got = Subscribed(listeners[notified'.by])
          /\ notified'.result = "returned"]_vars

\* unsubscribing from inside the own callback leaves the delivery to the others
\* as it is
UnsubscribeInside ==
  [][(notified' # notified
        /\ \A k \in DOMAIN listeners[notified'.by] :
             listeners[notified'.by][k].kind # "throws")
       => /\ notified'.got = Subscribed(listeners[notified'.by])
          /\ notified'.result = "returned"]_vars


\* --------------------------------------------------------------- progress
\* C28: every collection's progress is within [0,100] in every state; a value the
\* push phase writes is within [0,50] and a value the pull phase writes is within
\* [50,100], for any number of changes, batches and pulled items.
ProgressRanges ==
  /\ [](\A e \in Entities : syncState[e].progress \in 0..100)
  /\ [](\A total \in 1..MaxItems : \A synced \in 0..total :
          /\ pushProgress(synced, total) \in 0..50
          /\ synced >= 1 => pullProgress(synced, total) \in 50..100)
  /\ [][LET e == Head(sy.entities) IN
        /\ (sy.pc = "mark" /\ syncState'[e].progress # syncState[e].progress)
             => syncState'[e].progress \in 0..50
        /\ (sy.pc = "merge" /\ syncState'[e].progress # syncState[e].progress)
             => syncState'[e].progress \in 50..100]_vars

\* a pull has merged part of a page: the progress is strictly between 50 and 100
WitnessPartialPage ==
  /\ sy.pc = "merge" /\ sy.pageLen > 1
  /\ syncState["orders"].progress \in 51..99

BackoffDelay ==
  /\ \A d \in delays :
       /\ d.delay = (IF 1000 * 2^d.retryCount < 32000 THEN 1000 * 2^d.retryCount
                     ELSE 32000)
       /\ d.delay <= 32000
  /\ \A d, e \in delays :
       /\ e.retryCount = d.retryCount + 1
            => e.delay = (IF 2 * d.delay < 32000 THEN 2 * d.delay ELSE 32000)
       /\ d.retryCount <= e.retryCount => d.delay <= e.delay

\* the delay was computed for a first attempt, for a retry below the cap and for
\* two attempt counts at the cap
WitnessBackoffCapped ==
  /\ [retryCount |-> 0, delay |-> 1000] \in delays
  /\ [retryCount |-> 4, delay |-> 16000] \in delays
  /\ \E d, e \in delays :
       /\ e.retryCount = d.retryCount + 1
       /\ d.delay = 32000 /\ e.delay = 32000

\* C31: the Outbox drain is single-flight: at most one drain iterates the queue at
\* a time, an online event arriving during an active drain starts nothing, the
\* drain flag is set exactly while a drain runs, also after a drain that ended
\* with an error, and an online event arriving with the flag clear starts a drain
DrainSingleFlight ==
  /\ [](drain.active <= 1)
  /\ [](syncInProgress <=> drain.pc \in {"exec", "deadLetter"})
  /\ [](syncInProgress <=> drain.active = 1)
  /\ [][syncInProgress /\ ~isOnline /\ isOnline' => drain' = drain]_vars
  /\ [][~syncInProgress /\ ~isOnline /\ isOnline'
          => syncInProgress' /\ drain'.pc = "exec" /\ drain'.active = 1]_vars

\* a drain visits a queued entry after an earlier drain ended with an error
WitnessDrainAborted ==
  /\ drain.aborts > 0
  /\ drain.pc = "exec" /\ drain.ops # <<>> /\ syncInProgress /\ drain.active = 1

\* the record ids of the delete entries of a collection in the Outbox
QueuedDeletes(e) ==
  {syncQueue[o].data.id : o \in {q \in OpIds : /\ syncQueue[q] # Nil
                                               /\ syncQueue[q].operation = "delete"
                                               /\ syncQueue[q].store = e}}

\* C32: deletions are propagated: when the push phase of a collection has detected
\* its changes, every record id with a delete entry in the Outbox is among the ids
\* the push phase issues a remote DELETE for
DeletesPropagated ==
  [][sy.pc = "detect" /\ sy'.pc # "detect"
       => \/ QueuedDeletes(Head(sy.entities)) = {}
          \/ /\ sy'.pc \in {"upload", "pull"}
             /\ QueuedDeletes(Head(sy.entities)) \subseteq Range(sy'.deleted)]_vars

\* C33: the push phase of a collection uploads every record of the collection that
\* is pending when the phase starts: when detectLocalChanges has read the
\* collection, every stored record with syncStatus pending is in its change set
PendingDetected ==
  [][sy.pc # "detect" /\ sy'.pc = "detect"
       => \A i \in StoreIds :
            (db'[Head(sy'.entities)][i] # Nil
             /\ db'[Head(sy'.entities)][i].syncStatus = "pending")
              => i \in Range(sy'.ids)]_vars

\* no get, put or delete on the record is in progress
Quiet(cs, s, i) ==
  \A c \in Callers : cs[c].pc = "idle" \/ cs[c].store # s \/ cs[c].id # i

\* C34: cache coherence: whenever no operation on a key is in flight, a cache entry
\* for the key equals the durable record, so that a get returns the record of the
\* last completed put, and nothing after a completed delete; and a get that returns
\* with no other operation on its key in flight returns the durable record
CacheCoherent ==
  /\ [](\A s \in Entities, i \in StoreIds :
          Quiet(calls, s, i)
            => /\ cache[s][i] # Nil => cache[s][i] = db[s][i]
               /\ getItem(cache, s, i) = db[s][i])
  /\ [][\A c \in Callers :
          (/\ calls'[c] # calls[c]
           /\ calls'[c].op = "get" /\ calls'[c].pc = "idle"
           /\ Quiet(calls', calls'[c].store, calls'[c].id))
            => calls'[c].item = db'[calls'[c].store][calls'[c].id]]_vars

\* two puts were made, both callers are back, the last get found the record in the
\* store and the cache holds it
WitnessCacheQuiet ==
  /\ \A c \in Callers : calls[c].pc = "idle"
  /\ nextVal > MaxWrites
  /\ calls["app2"].op = "get" /\ calls["app2"].item # Nil
  /\ calls["app2"].item = db["orders"]["r1"]
  /\ cache["orders"]["r1"] = db["orders"]["r1"]

\* C35: in every reachable state, also between the steps of a dead-letter move and
\* after an interruption between them, no operation id is both in the active
\* Outbox (syncQueue) and in the dead-letter store (conflicts)
NeverInBothStores ==
  \A o \in OpIds : ~(syncQueue[o] # Nil /\ conflicts[o] # Nil)

\* C36: whenever the sync lock is free, no collection has status syncing: a cycle
\* that entered syncing has ended in success or error when sync() returns, by
\* success, network error or cancellation
NoSyncingWhenFree ==
  (~engineSyncInProgress \/ activeSyncs = 0)
    => \A e \in Entities : syncState[e].status \in {"idle", "success", "error"}

\* no sync() is running; the last cycle synced one collection and was cancelled in
\* the next
WitnessCycleEnded ==
  /\ ~engineSyncInProgress /\ activeSyncs = 0 /\ syncCalls > 0
  /\ syncState["inventory"].status = "success"
  /\ syncState["orders"].status = "error"
  /\ syncState["orders"].lastError = "Sync cancelled"

\* C37: delta pull misses nothing: when lastSyncTimestamp of a collection has moved
\* past the time of a remote change, a cycle has fetched and merged that change
CursorBehindUnfetched ==
  \A k \in DOMAIN remoteLog :
    remoteLog[k].updatedAt < lastSyncTs["orders"] => db["orders"][remoteLog[k].id] # Nil

\* C38: a write of the sync engine (a payload marked syncStatus synced by
\* uploadBatch or mergeRemoteItem) never creates an Outbox entry and never leaves
\* the record pending, whatever online/offline transitions happen in the cycle
EngineWritesNotQueued ==
  /\ \A o \in OpIds :
       syncQueue[o] # Nil /\ syncQueue[o].operation = "put" => ~syncQueue[o].data.data.synced
  /\ \A e \in Entities, i \in StoreIds :
       db[e][i] # Nil /\ db[e][i].data.synced => db[e][i].syncStatus # "pending"

\* C39: after mergeRemoteItem has merged a remote item into an existing local
\* record, the stored record's vector clock is >= the previous local clock and the
\* remote clock on every device, and compares neither Behind nor Concurrent
\* against the remote clock
MergedClockDominates ==
  [][MergeStep /\ MergeLocal # Nil =>
       LET stored == db'[Head(sy.entities)][Head(sy.items).id].vectorClock
           remoteClock == Head(sy.items).vectorClock
       IN /\ \A d \in Devices :
               /\ Counter(stored, d) >= Counter(MergeLocal.vectorClock, d)
               /\ Counter(stored, d) >= Counter(remoteClock, d)
          /\ compareVectorClocks(stored, remoteClock) \notin {-1, 0}]_vars

=============================================================================
